---- MODULE Spec2Model ----
(***************************************************************************)
(* Model of the crawl job coordinator of cradcrawl.                        *)
(*                                                                         *)
(* src/app.py keeps one process-wide CrawlingState (crawling_state).  The  *)
(* HTTP handlers start_crawling and stop_crawling and the background task  *)
(* run_crawling are coroutines of one asyncio event loop: code between two *)
(* awaits runs atomically, and at an await any other handler or task may   *)
(* run.  Each action below is the code between two such suspension points. *)
(*                                                                         *)
(* The browser and the portal are the environment: initialisation,         *)
(* navigation and search may fail, the portal lists a fixed sequence of    *)
(* rows for each keyword (Listing), and every browser call fails once the  *)
(* driver has been quit.                                                   *)
(*                                                                         *)
(* Three parts of the program are also modelled on their own, each with    *)
(* its own specification: one call of G2BParser.parse_detail_page for any  *)
(* page and any reply of the text service (ParserSpec), one call of        *)
(* G2BSearcher.extract_search_results for any page (ListSpec), and the     *)
(* WebSocketManager with clients that connect and go away while events     *)
(* are broadcast (BusSpec).  The rows Listing gives for a keyword are      *)
(* computed by the searcher's chain of strategies.                         *)
(***************************************************************************)
EXTENDS Naturals, Sequences, FiniteSets, TLC

\* Number of start requests that may be accepted in one behaviour of Spec,
\* of RaceSpec, of OverlapSpec and of LiveSpec.
MaxJobs == 1

MaxRaceJobs == 2

MaxOverlapJobs == 2

MaxLiveJobs == 1

\* Number of stop handlers that may be suspended between their check and
\* their state update at one time.
MaxPendingStops == 1

\* request.get("maxItems", 10000)
DefaultMaxItems == 10000

Max(a, b) == IF a > b THEN a ELSE b

\* Identities of the jobs started, in the order of their start; enough of
\* them for every specification.
Jobs == 1..Max(Max(MaxJobs, MaxRaceJobs), Max(MaxOverlapJobs, MaxLiveJobs))

\* Python's None, and a value of datetime.now().
None == 0

Now == 1

---------------------------------------------------------------------------
(* The portal: rows of the search-result list, per keyword.                *)

Row(t, n) == [title |-> t, bid_number |-> n]

\* A python dict with string keys is a function on its keys.
Put(d, k, v) == [x \in DOMAIN d \cup {k} |-> IF x = k THEN v ELSE d[x]]

SeqUpTo(S, n) == UNION { [1..m -> S] : m \in 0..n }

\* A page of search results, as G2BSearcher sees it (g2b_search.py):
\*   readable   driver.page_source can be read
\*   table, cells, grid   the rows that _extract_items_from_table,
\*              _extract_items_from_cells and _extract_items_from_grid
\*              yield from the parsed page source
\*   dom_cells  the rows found in the live page by their cell ids
\*   dom_rows   the number of table rows below the header in the live page
ResultPage(r, t, c, g, dc, dr) ==
    [readable |-> r, table |-> t, cells |-> c, grid |-> g,
     dom_cells |-> dc, dom_rows |-> dr]

\* Bs4Items with the generic grid tried first.
Bs4Items_gridfirst(page) ==
    IF page.grid # << >> THEN page.grid
    ELSE IF page.table # << >> THEN page.table
    ELSE page.cells

\* extract_search_results_bs4, lines 365-376: the structural table, then
\* the cell identifiers, then the generic grid; each strategy catches its
\* own exceptions and yields no row then.
Bs4Items(page) ==
    IF page.table # << >> THEN page.table
    ELSE IF page.cells # << >> THEN page.cells
    ELSE page.grid

\* Lines 383-386: item['keyword'] = self.keyword
WithKeyword(items, keyword) ==
    [i \in 1..Len(items) |-> Put(items[i], "keyword", keyword)]

\* extract_search_results_bs4: it raises when the page source cannot be
\* read (lines 354, 396-399).
ExtractSearchResultsBs4(page, keyword) ==
    IF ~page.readable THEN [raised |-> TRUE, items |-> << >>]
    ELSE [raised |-> FALSE, items |-> WithKeyword(Bs4Items(page), keyword)]

\* "await self._extract_item_from_row(...)": the method is a plain def, so
\* awaiting the dict or None it returns raises TypeError and no row ever
\* yields an item.
AwaitedRowItems(n) == [raised |-> n > 0, items |-> << >>]

\* Lines 277-302: strategy 2 over the live tables; the first awaited row
\* raises out of the loop and the except logs.
DomTableItems(page) == AwaitedRowItems(page.dom_rows).items

\* Lines 305-326: strategy 3 over all rows; every row raises and is
\* skipped.
DomXPathItems(page) == AwaitedRowItems(page.dom_rows).items

\* ExtractSearchResults returning a row without title or number when no
\* strategy yields.
ExtractSearchResults_placeholder(page, keyword) ==
    LET bs4 == ExtractSearchResultsBs4(page, keyword) IN
    IF ~bs4.raised /\ bs4.items # << >> THEN bs4.items
    ELSE IF page.dom_cells # << >> THEN page.dom_cells
    ELSE << Row("", "") >>

\* G2BSearcher.extract_search_results: the rows of the first step that
\* yields any, else the empty list.
ExtractSearchResults(page, keyword) ==
    LET bs4 == ExtractSearchResultsBs4(page, keyword) IN
    IF ~bs4.raised /\ bs4.items # << >> THEN bs4.items
    ELSE IF page.dom_cells # << >> THEN page.dom_cells
    ELSE IF DomTableItems(page) # << >> THEN DomTableItems(page)
    ELSE IF DomXPathItems(page) # << >> THEN DomXPathItems(page)
    ELSE << >>

\* The page the portal shows for each keyword.  "a": the structural table
\* yields three notices, the third without a bid number in its row.  "b":
\* only the generic grid yields, one notice.  "d": the parsed page yields
\* nothing and the live cells yield the notice of "b".  Any other keyword:
\* the page source cannot be read and no strategy yields.
PortalPage(k) ==
    CASE k = "a" -> ResultPage(TRUE, << Row("t1", "n1"), Row("t2", "n2"),
                                        Row("t3", "") >>,
                               << >>, << >>, << >>, 3)
      [] k = "b" -> ResultPage(TRUE, << >>, << >>, << Row("t4", "n4") >>,
                               << >>, 1)
      [] k = "d" -> ResultPage(TRUE, << >>, << >>, << >>,
                               << Row("t4", "n4") >>, 1)
      [] OTHER   -> ResultPage(FALSE, << >>, << >>, << >>, << >>, 0)

\* The rows the searcher extracts for keyword k.
Listing(k) == ExtractSearchResults(PortalPage(k), k)

\* The bodies a start request may carry: keywords and maxItems.
Request(kws, m) == [keywords |-> kws, maxItems |-> m]

Requests == { Request(<< >>, DefaultMaxItems),
              Request(<<"a">>, 2),
              Request(<<"b", "c", "d">>, DefaultMaxItems) }

\* The bodies of RaceSpec and LiveSpec: one keyword with one notice.
RaceRequests == { Request(<< >>, DefaultMaxItems),
                  Request(<<"b">>, DefaultMaxItems) }

\* The bodies of OverlapSpec: jobs with different keywords.
OverlapRequests == { Request(<< >>, DefaultMaxItems),
                     Request(<<"b">>, DefaultMaxItems),
                     Request(<<"c">>, DefaultMaxItems) }

AllRequests == Requests \cup RaceRequests \cup OverlapRequests

---------------------------------------------------------------------------
VARIABLES
    \* crawling_state (CrawlingState)
    is_running, crawler, results, processed_keywords, total_keywords,
    start_time, end_time,
    \* per crawler object: whether its webdriver is open
    driver_open,
    \* per background task run_crawling: position, arguments and locals
    pc, keywords, max_items, idx, all_items, keyword_results, item_idx,
    detailed_items, search_result_model,
    \* per background task: the status, result and error events it
    \* broadcast in its latest step (log events are left out)
    sent,
    \* request handlers: starts accepted so far, stop handlers suspended
    \* between their check and their update
    jobs, stop_pending,
    \* output of the last step: who wrote a snapshot file in it ("none",
    \* "stop", "task") and the file written
    written_by, written,
    \* history: whether a snapshot was written since the last accepted
    \* start, whether a stop was accepted with no start accepted since, and
    \* the operations the task of that job has begun since then
    persisted, stop_acked, begun_after_stop,
    \* one call of G2BParser.parse_detail_page: the page it is given, the
    \* reply the text service has for it, its position, its detail_data, the
    \* parsed reply items still to merge, and what it returned
    html, response, parse_pc, detail_data, merge_left, parse_ret,
    \* one call of G2BSearcher.extract_search_results: the page and the
    \* keyword it works on, its position, and what it returned
    list_page, list_keyword, list_pc, list_ret,
    \* websocket clients: the state of each client's socket and endpoint
    \* ("new", "open", "stalled": the peer no longer reads, "closed" by the
    \* peer, "gone", "failed": the endpoint ended with an exception), the
    \* manager's list, the
    \* event being broadcast (0: none) with the number of events so far, the
    \* index of the loop's iterator and the clients whose send failed
    ws_state, active_connections, message, events, it_index,
    disconnected_clients,
    \* history: the events each client received, the clients in the list
    \* when the broadcast began, the clients a broadcast removed, the number
    \* of sends of the current event that completed for each client
    received, members, removed, sends,
    \* status snapshots: the list objects of the process with the one that
    \* crawling_state.processed_keywords is bound to, len(results), the
    \* message of the status broadcast in flight with the clients it was
    \* sent to and what each was sent, and the body of the last reply to
    \* GET /api/status
    heap, pk, total_items, status_message, status_to, delivered, http_body,
    \* history: the status when the broadcast and the reply took it
    taken, http_taken,
    \* the crawler's pages: the page the tracker holds, the page the browser
    \* shows, and of the last call of the crawler its name, the tracked page
    \* before it, what it returned, whether it drove the navigator to the
    \* bid list ("no", "ok", "failed") and the page whose source it parsed;
    \* the number of calls so far
    current_page, browser_page, nav_op, prev_page, nav_ret, navigated,
    parsed_on, nav_calls,
    \* the detail processor: where its call stands, the candidate, the row
    \* whose detail view was opened (-1: none), what the extraction gave,
    \* what the call returned, the calls of driver.back() in the call, the
    \* driver ("up", "quit"), the page shown and the number of calls
    detail_pc, detail_item, opened_row, detail_out, detail_ret,
    back_attempts, detail_driver, detail_view, detail_calls,
    \* the popup sweep of the navigator: where the call of navigate_to_main
    \* and its sweep stand, the passes begun, the closes counted, the
    \* closes of the last pass, the interruptions the page shows by kind,
    \* those a close may still reveal, the popup windows, the version of
    \* the document and the version the last pass queried, the kinds of
    \* failure met, how the sweep ended and what navigate_to_main returned
    popup_pc, attempt, closed_count, pass_closed, popups, hidden,
    popup_windows, dom_version, seen_version, failures, popup_ret, main_ret,
    \* the status of one list row: where the extraction stands, the text of
    \* the end-date cell, the current date, the list strategy that read the
    \* row, the status it put in the item and the status of the BidItem
    class_pc, date_end, current_date, strategy, item_status, bid_status,
    \* one call of the navigator's navigate_to_bid_list: the portal it
    \* meets (whether the menu is there and which search button the list
    \* page has), where the call stands, the attempt of its loop, what each
    \* attempt so far came to, and what the call returned
    site, bidlist_pc, list_attempt, attempt_log, bidlist_ret

state_vars == << is_running, crawler, results, processed_keywords,
                 total_keywords, start_time, end_time >>

task_vars == << pc, keywords, max_items, idx, all_items, keyword_results,
                item_idx, detailed_items, search_result_model, sent >>

crawl_vars == << is_running, crawler, results, processed_keywords,
                 total_keywords, start_time, end_time, driver_open,
                 pc, keywords, max_items, idx, all_items, keyword_results,
                 item_idx, detailed_items, search_result_model, sent,
                 jobs, stop_pending, written_by, written,
                 persisted, stop_acked, begun_after_stop >>

parser_vars == << html, response, parse_pc, detail_data, merge_left,
                  parse_ret >>

list_vars == << list_page, list_keyword, list_pc, list_ret >>

bus_vars == << ws_state, active_connections, message, events, it_index,
               disconnected_clients, received, members, removed, sends >>

snap_vars == << heap, pk, total_items, status_message, status_to,
                delivered, http_body, taken, http_taken >>

nav_vars == << current_page, browser_page, nav_op, prev_page, nav_ret,
               navigated, parsed_on, nav_calls >>

detail_vars == << detail_pc, detail_item, opened_row, detail_out,
                  detail_ret, back_attempts, detail_driver, detail_view,
                  detail_calls >>

popup_vars == << popup_pc, attempt, closed_count, pass_closed, popups,
                 hidden, popup_windows, dom_version, seen_version, failures,
                 popup_ret, main_ret >>

class_vars == << class_pc, date_end, current_date, strategy, item_status,
                 bid_status >>

bidlist_vars == << site, bidlist_pc, list_attempt, attempt_log,
                   bidlist_ret >>

vars == << crawl_vars, parser_vars, list_vars, bus_vars, snap_vars,
           nav_vars, detail_vars,
           popup_vars,
           class_vars,
           bidlist_vars >>

\* A step of the coordinator: the calls that are modelled on their own do
\* not move.
CrawlFrame ==
    UNCHANGED << parser_vars, list_vars, bus_vars, snap_vars, nav_vars,
                 detail_vars,
                 popup_vars,
                 class_vars,
                 bidlist_vars >>

---------------------------------------------------------------------------
(* Pure helpers.                                                           *)

Min(a, b) == IF a < b THEN a ELSE b

Take(s, n) == SubSeq(s, 1, Min(n, Len(s)))

InSeq(x, s) == \E i \in 1..Len(s) : s[i] = x

\* The new entries take the place of the old.
AppendNew_replacing(acc, xs) == xs

\* for x in xs: if x not in acc: acc.append(x)
RECURSIVE AppendNew(_, _)
AppendNew(acc, xs) ==
    IF xs = << >> THEN acc
    ELSE AppendNew(IF InSeq(Head(xs), acc) THEN acc ELSE Append(acc, Head(xs)),
                   Tail(xs))

\* A value of uuid.uuid4(): unique to the call that made it, here the
\* conversion of row p of keyword i of job j.  NoUuid: the text was used.
NoUuid == << 0, 0, 0 >>

Uuid(j, i, p) == << j, i, p >>

\* G2BCrawler._convert_to_bid_item: a fresh id, the row's bid number or a
\* fresh uuid when the row has none, the row's title.
ConvertToBidItem(row, j, i, p) ==
    [ id         |-> Uuid(j, i, p),
      bid_number |-> IF row.bid_number # ""
                     THEN [text |-> row.bid_number, uuid |-> NoUuid]
                     ELSE [text |-> "", uuid |-> Uuid(j, i, p)],
      bid_title  |-> IF row.title # "" THEN row.title ELSE "no title" ]

\* G2BCrawler._convert_dict_results_to_model
ConvertDictResultsToModel(items, j, i) ==
    [ p \in 1..Len(items) |-> ConvertToBidItem(items[p], j, i, p) ]

\* extract_search_results without its limit.
ValidItems_unlimited(all, m) == all

\* G2BCrawler.extract_search_results: the first max_items of all_items
\* (all of them when max_items <= 0).
ValidItems(all, m) == IF m > 0 THEN Take(all, m) ELSE all

\* CrawlingState.get_status
GetStatus ==
    [ is_running         |-> is_running,
      processed_keywords |-> processed_keywords,
      total_keywords     |-> total_keywords,
      total_items        |-> Len(results),
      start_time         |-> start_time,
      end_time           |-> end_time ]

\* save_results counting the processed keywords in place of the results.
SaveResults_keywordcount(rs, ks) ==
    [ total_items |-> Len(ks), keywords |-> ks, results |-> rs ]

\* CrawlingState.save_results: the snapshot written for results rs and
\* processed keywords ks.
SaveResults(rs, ks) ==
    [ total_items |-> Len(rs), keywords |-> ks, results |-> rs ]

---------------------------------------------------------------------------
Init ==
    /\ is_running = FALSE
    /\ crawler = None
    /\ results = << >>
    /\ processed_keywords = << >>
    /\ total_keywords = 0
    /\ start_time = None
    /\ end_time = None
    /\ driver_open = [j \in Jobs |-> FALSE]
    /\ pc = [j \in Jobs |-> "idle"]
    /\ keywords = [j \in Jobs |-> << >>]
    /\ max_items = [j \in Jobs |-> 0]
    /\ idx = [j \in Jobs |-> 0]
    /\ all_items = [j \in Jobs |-> << >>]
    /\ keyword_results = [j \in Jobs |-> << >>]
    /\ item_idx = [j \in Jobs |-> 0]
    /\ detailed_items = [j \in Jobs |-> << >>]
    /\ search_result_model = [j \in Jobs |-> << >>]
    /\ sent = [j \in Jobs |-> << >>]
    /\ jobs = 0
    /\ stop_pending = 0
    /\ written_by = "none"
    /\ written = SaveResults(<< >>, << >>)
    /\ persisted = FALSE
    /\ stop_acked = FALSE
    /\ begun_after_stop = 0

---------------------------------------------------------------------------
(* POST /api/start                                                         *)

\* The step of a handler writes no snapshot file.
NoFile == written_by' = "none" /\ written' = SaveResults(<< >>, << >>)

\* start_crawling without the reset of lines 514-515: the results and the
\* processed keywords of the job before stay.
Accept_keepresults(req) ==
    /\ is_running' = TRUE
    /\ total_keywords' = Len(req.keywords)
    /\ start_time' = Now
    /\ end_time' = None
    /\ jobs' = jobs + 1
    /\ pc' = [pc EXCEPT ![jobs + 1] = "pending"]
    /\ keywords' = [keywords EXCEPT ![jobs + 1] = req.keywords]
    /\ max_items' = [max_items EXCEPT ![jobs + 1] = req.maxItems]
    /\ NoFile
    /\ CrawlFrame
    /\ persisted' = FALSE
    /\ stop_acked' = FALSE
    /\ begun_after_stop' = 0
    /\ UNCHANGED << results, processed_keywords, crawler, driver_open, idx,
                    all_items, keyword_results, item_idx, detailed_items,
                    search_result_model, sent, stop_pending >>

\* Lines 511-537: the state is reset for the new job and its task is added.
\* The task is "pending" until the handler has returned and the event loop
\* first runs it.
Accept(req) ==
    /\ is_running' = TRUE
    /\ results' = << >>
    /\ processed_keywords' = << >>
    /\ total_keywords' = Len(req.keywords)
    /\ start_time' = Now
    /\ end_time' = None
    /\ jobs' = jobs + 1
    /\ pc' = [pc EXCEPT ![jobs + 1] = "pending"]
    /\ keywords' = [keywords EXCEPT ![jobs + 1] = req.keywords]
    /\ max_items' = [max_items EXCEPT ![jobs + 1] = req.maxItems]
    /\ NoFile
    /\ CrawlFrame
    /\ persisted' = FALSE
    /\ stop_acked' = FALSE
    /\ begun_after_stop' = 0
    /\ UNCHANGED << crawler, driver_open, idx, all_items, keyword_results,
                    item_idx, detailed_items, search_result_model, sent,
                    stop_pending >>

\* A handler returns an error and changes nothing.
Reject ==
    /\ NoFile
    /\ CrawlFrame
    /\ UNCHANGED << state_vars, driver_open, task_vars, jobs, stop_pending,
                    persisted, stop_acked, begun_after_stop >>

\* start_crawling without its check of is_running.
start_crawling_unguarded(req) ==
    /\ req.keywords # << >>
    /\ Accept(req)

\* The handler up to its return.  There is no await between the check of
\* is_running (line 498) and the reset of the state (lines 512-517).
start_crawling(req) ==
    \/ /\ is_running
       /\ Reject
    \/ /\ ~is_running
       /\ req.keywords = << >>
       /\ Reject
    \/ /\ ~is_running
       /\ req.keywords # << >>
       /\ Accept(req)

---------------------------------------------------------------------------
(* POST /api/stop                                                          *)

\* Lines 542-546: the check, then the handler awaits send_log.
stop_crawling_check ==
    \/ /\ ~is_running
       /\ Reject
    \/ /\ is_running
       /\ stop_pending < MaxPendingStops
       /\ stop_pending' = stop_pending + 1
       /\ NoFile
       /\ CrawlFrame
       /\ UNCHANGED << state_vars, driver_open, task_vars, jobs, persisted,
                       stop_acked, begun_after_stop >>

\* Lines 548-568: close the registered crawler, clear the flag, set the end
\* time, save, return.
stop_crawling_apply ==
    /\ stop_pending > 0
    /\ stop_pending' = stop_pending - 1
    /\ CrawlFrame
    /\ driver_open' = IF crawler # None
                      THEN [driver_open EXCEPT ![crawler] = FALSE]
                      ELSE driver_open
    /\ crawler' = None
    /\ is_running' = FALSE
    /\ end_time' = Now
    /\ written_by' = "stop"
    /\ written' = SaveResults(results, processed_keywords)
    /\ persisted' = TRUE
    /\ stop_acked' = TRUE
    /\ UNCHANGED << results, processed_keywords, total_keywords, start_time,
                    task_vars, jobs, begun_after_stop >>

---------------------------------------------------------------------------
(* run_crawling, the background task of job j                              *)

\* What no step of the task changes.
TaskFrame ==
    /\ UNCHANGED << jobs, stop_pending, stop_acked, keywords, max_items,
                    total_keywords, start_time >>
    /\ CrawlFrame

\* The step writes no snapshot file.
NoWrite == NoFile /\ UNCHANGED persisted

\* The task of job j broadcasts the events evs in the step: send_status is
\* "status", send_results is "result", send_error is "error".
Broadcasts(j, evs) == sent' = [sent EXCEPT ![j] = evs]

\* An operation (keyword search, item detail extraction) begins; it is
\* counted when it is the task of the latest job that begins it, after a
\* stop of that job.
Begin(j) ==
    begun_after_stop' =
        IF stop_acked /\ j = jobs THEN begun_after_stop + 1
        ELSE begun_after_stop

\* Lines 719-733.  G2BCrawler(...) may raise (to the handler at line 895);
\* otherwise the crawler is registered and initialised, which may fail.
run_init(j) ==
    /\ pc[j] = "pending"
    /\ TaskFrame /\ NoWrite
    /\ UNCHANGED << results, processed_keywords, end_time, idx, all_items,
                    keyword_results, item_idx, detailed_items,
                    search_result_model, begun_after_stop >>
    /\ \/ /\ pc' = [pc EXCEPT ![j] = "finally"]
          /\ Broadcasts(j, <<"error">>)
          /\ UNCHANGED << is_running, crawler, driver_open >>
       \/ /\ crawler' = j
          /\ is_running' = FALSE
          /\ pc' = [pc EXCEPT ![j] = "finally"]
          /\ Broadcasts(j, <<"error">>)
          /\ UNCHANGED driver_open
       \/ /\ crawler' = j
          /\ driver_open' = [driver_open EXCEPT ![j] = TRUE]
          /\ pc' = [pc EXCEPT ![j] = "navigate"]
          /\ Broadcasts(j, << >>)
          /\ UNCHANGED is_running

\* Lines 736-759: navigation to the main page and to the bid list, and the
\* search conditions.  Navigation fails on a closed driver and may fail on
\* an open one; then the task clears the flag and closes its own crawler.
run_navigate(j) ==
    /\ pc[j] = "navigate"
    /\ TaskFrame /\ NoWrite
    /\ UNCHANGED << crawler, results, processed_keywords, end_time, all_items,
                    keyword_results, item_idx, detailed_items,
                    search_result_model, begun_after_stop >>
    /\ \/ /\ driver_open[j]
          /\ pc' = [pc EXCEPT ![j] = "kw_check"]
          /\ idx' = [idx EXCEPT ![j] = 1]
          /\ Broadcasts(j, << >>)
          /\ UNCHANGED << is_running, driver_open >>
       \/ /\ is_running' = FALSE
          /\ driver_open' = [driver_open EXCEPT ![j] = FALSE]
          /\ pc' = [pc EXCEPT ![j] = "finally"]
          /\ Broadcasts(j, <<"error">>)
          /\ UNCHANGED idx

\* Lines 782-789: the head of the keyword loop; then send_log is awaited.
run_keyword_check(j) ==
    /\ pc[j] = "kw_check"
    /\ TaskFrame /\ NoWrite
    /\ UNCHANGED << is_running, crawler, results, processed_keywords,
                    end_time, driver_open, idx, all_items, keyword_results,
                    item_idx, detailed_items, search_result_model,
                    begun_after_stop >>
    /\ Broadcasts(j, << >>)
    /\ pc' = [pc EXCEPT ![j] =
                IF idx[j] > Len(keywords[j]) \/ ~is_running
                THEN "save" ELSE "kw_log"]

\* if keyword not in processed_keywords: processed_keywords.append(keyword)
MarkProcessed(ks, k) == IF InSeq(k, ks) THEN ks ELSE Append(ks, k)

\* An exception of the keyword ends the whole loop.
KeywordRaises_fatal(j) ==
    /\ pc' = [pc EXCEPT ![j] = "save"]
    /\ Broadcasts(j, << >>)
    /\ UNCHANGED << processed_keywords, idx, all_items, keyword_results,
                    item_idx, detailed_items, search_result_model >>

\* Lines 878-883: an exception raised while the keyword is processed is
\* caught in the loop and logged, and the loop continues.
KeywordRaises(j) ==
    /\ idx' = [idx EXCEPT ![j] = idx[j] + 1]
    /\ pc' = [pc EXCEPT ![j] = "kw_check"]
    /\ Broadcasts(j, << >>)
    /\ UNCHANGED << processed_keywords, all_items, keyword_results,
                    item_idx, detailed_items, search_result_model >>

\* Lines 791-808, 870-871 and 878-883: search_keyword and
\* extract_search_results for keywords[j][idx[j]].
run_search(j) ==
    /\ pc[j] = "kw_log"
    /\ TaskFrame /\ NoWrite
    /\ Begin(j)
    /\ UNCHANGED << is_running, crawler, results, end_time, driver_open >>
    /\ LET k == keywords[j][idx[j]] IN
       \* an exception inside the try
       \/ KeywordRaises(j)
       \* the search fails, or it succeeds and no item is extracted; then
       \* send_log is awaited (line 871)
       \/ /\ all_items' = [all_items EXCEPT ![j] = << >>]
          /\ keyword_results' = [keyword_results EXCEPT ![j] = << >>]
          /\ pc' = [pc EXCEPT ![j] = "kw_empty"]
          /\ Broadcasts(j, << >>)
          /\ UNCHANGED << processed_keywords, idx, item_idx, detailed_items,
                          search_result_model >>
       \* the search succeeds and the listed rows are extracted
       \/ /\ driver_open[j]
          /\ Listing(k) # << >>
          /\ all_items' = [all_items EXCEPT ![j] = Listing(k)]
          /\ keyword_results' = [keyword_results EXCEPT ![j] =
                                    ValidItems(Listing(k), max_items[j])]
          /\ search_result_model' = [search_result_model EXCEPT ![j] =
                ConvertDictResultsToModel(
                    ValidItems(Listing(k), max_items[j]), j, idx[j])]
          /\ detailed_items' = [detailed_items EXCEPT ![j] = << >>]
          /\ item_idx' = [item_idx EXCEPT ![j] = 1]
          /\ pc' = [pc EXCEPT ![j] = "item_check"]
          /\ Broadcasts(j, << >>)
          /\ UNCHANGED << processed_keywords, idx >>

\* The keyword had no results; evs are the events broadcast for it.
KeywordEmpty(j, evs) ==
    /\ pc[j] = "kw_empty"
    /\ TaskFrame /\ NoWrite
    /\ UNCHANGED << is_running, crawler, results, end_time, driver_open,
                    all_items, keyword_results, item_idx, detailed_items,
                    search_result_model, begun_after_stop >>
    /\ processed_keywords' =
          MarkProcessed(processed_keywords, keywords[j][idx[j]])
    /\ idx' = [idx EXCEPT ![j] = idx[j] + 1]
    /\ Broadcasts(j, evs)
    /\ pc' = [pc EXCEPT ![j] = "kw_check"]

\* run_keyword_empty broadcasting nothing.
run_keyword_empty_silent(j) == KeywordEmpty(j, << >>)

\* Lines 872-877: the keyword is marked as processed and the status is
\* broadcast.
run_keyword_empty(j) == KeywordEmpty(j, <<"status">>)

\* The head of the item loop; stop tells whether the flag ends the loop.
ItemCheck(j, stop) ==
    /\ pc[j] = "item_check"
    /\ TaskFrame /\ NoWrite
    /\ UNCHANGED << is_running, crawler, results, processed_keywords,
                    end_time, driver_open, idx, all_items, keyword_results,
                    item_idx, detailed_items, search_result_model,
                    begun_after_stop >>
    /\ Broadcasts(j, << >>)
    /\ pc' = [pc EXCEPT ![j] =
                IF item_idx[j] > Len(keyword_results[j]) \/ stop
                THEN "kw_finish" ELSE "item_log"]

\* run_item_check without the check of is_running.
run_item_check_nostop(j) == ItemCheck(j, FALSE)

\* Lines 810-817: the item loop ends with the list or when the flag is
\* cleared; otherwise send_log is awaited.
run_item_check(j) == ItemCheck(j, ~is_running)

\* item.update(detail_data): the candidate with the outcome of its detail
\* extraction.
Detailed(item, outcome) ==
    [title |-> item.title, bid_number |-> item.bid_number, detail |-> outcome]

\* Line 820 and g2b_crawler.py 225-246: process_detail_page reads the page
\* source and awaits the parser.  When the page source cannot be read, as
\* on a closed driver, it returns an error mapping at once.
run_detail_begin(j) ==
    /\ pc[j] = "item_log"
    /\ TaskFrame /\ NoWrite
    /\ Begin(j)
    /\ Broadcasts(j, << >>)
    /\ UNCHANGED << is_running, crawler, results, processed_keywords,
                    end_time, driver_open, idx, all_items, keyword_results,
                    search_result_model >>
    /\ \/ /\ driver_open[j]
          /\ pc' = [pc EXCEPT ![j] = "detail"]
          /\ UNCHANGED << detailed_items, item_idx >>
       \/ /\ detailed_items' = [detailed_items EXCEPT ![j] =
                Append(@, Detailed(keyword_results[j][item_idx[j]], "error"))]
          /\ item_idx' = [item_idx EXCEPT ![j] = item_idx[j] + 1]
          /\ pc' = [pc EXCEPT ![j] = "item_check"]

\* g2b_crawler.py 248-279 and lines 822-845: the parser has returned; the
\* current URL is read from the driver, which raises if the driver was quit
\* meanwhile; the item is kept either way.
run_detail_end(j) ==
    /\ pc[j] = "detail"
    /\ TaskFrame /\ NoWrite
    /\ UNCHANGED << is_running, crawler, results, processed_keywords,
                    end_time, driver_open, idx, all_items, keyword_results,
                    search_result_model, begun_after_stop >>
    /\ detailed_items' = [detailed_items EXCEPT ![j] =
          Append(@, Detailed(keyword_results[j][item_idx[j]],
                             IF driver_open[j] THEN "ok" ELSE "error"))]
    /\ item_idx' = [item_idx EXCEPT ![j] = item_idx[j] + 1]
    /\ Broadcasts(j, << >>)
    /\ pc' = [pc EXCEPT ![j] = "item_check"]

\* G2BCrawler.get_model_results: the items of the search result model.
GetModelResults(j) == search_result_model[j]

\* Lines 847-869: the model items replace the detailed items when there are
\* any; those not yet in results are appended; the keyword is processed.
run_keyword_finish(j) ==
    /\ pc[j] = "kw_finish"
    /\ TaskFrame /\ NoWrite
    /\ UNCHANGED << is_running, crawler, end_time, driver_open, all_items,
                    keyword_results, item_idx, search_result_model,
                    begun_after_stop >>
    /\ LET model_items == GetModelResults(j)
           final == IF model_items # << >> THEN model_items
                    ELSE detailed_items[j]
       IN /\ detailed_items' = [detailed_items EXCEPT ![j] = final]
          /\ results' = AppendNew(results, final)
    /\ processed_keywords' =
          MarkProcessed(processed_keywords, keywords[j][idx[j]])
    /\ idx' = [idx EXCEPT ![j] = idx[j] + 1]
    /\ Broadcasts(j, <<"status", "result">>)
    /\ pc' = [pc EXCEPT ![j] = "kw_check"]

\* Lines 885-893: the results are saved when there are any.
run_save(j) ==
    /\ pc[j] = "save"
    /\ TaskFrame
    /\ UNCHANGED << is_running, crawler, results, processed_keywords,
                    end_time, driver_open, idx, all_items, keyword_results,
                    item_idx, detailed_items, search_result_model,
                    begun_after_stop >>
    /\ IF results # << >>
       THEN /\ written_by' = "task"
            /\ written' = SaveResults(results, processed_keywords)
            /\ persisted' = TRUE
       ELSE NoWrite
    /\ Broadcasts(j, << >>)
    /\ pc' = [pc EXCEPT ![j] = "finally"]

\* The finally block; reset tells whether it clears the flag and sets the
\* end time.  The locals of the task end with it.
Finally(j, reset) ==
    /\ pc[j] = "finally"
    /\ TaskFrame /\ NoWrite
    /\ UNCHANGED << results, processed_keywords, begun_after_stop >>
    /\ driver_open' = IF crawler # None
                      THEN [driver_open EXCEPT ![crawler] = FALSE]
                      ELSE driver_open
    /\ crawler' = None
    /\ is_running' = IF reset THEN FALSE ELSE is_running
    /\ end_time' = IF reset THEN Now ELSE end_time
    /\ idx' = [idx EXCEPT ![j] = 0]
    /\ item_idx' = [item_idx EXCEPT ![j] = 0]
    /\ all_items' = [all_items EXCEPT ![j] = << >>]
    /\ keyword_results' = [keyword_results EXCEPT ![j] = << >>]
    /\ detailed_items' = [detailed_items EXCEPT ![j] = << >>]
    /\ search_result_model' = [search_result_model EXCEPT ![j] = << >>]
    /\ Broadcasts(j, <<"status">>)
    /\ pc' = [pc EXCEPT ![j] = "done"]

\* run_finally leaving the flag and the end time alone.
run_finally_noreset(j) == Finally(j, FALSE)

\* Lines 898-910: the registered crawler, whichever it is, is closed and
\* unregistered; the flag is cleared and the end time set.
run_finally(j) == Finally(j, TRUE)

run_crawling(j) ==
    \/ run_init(j)
    \/ run_navigate(j)
    \/ run_keyword_check(j)
    \/ run_search(j)
    \/ run_keyword_empty(j)
    \/ run_item_check(j)
    \/ run_detail_begin(j)
    \/ run_detail_end(j)
    \/ run_keyword_finish(j)
    \/ run_save(j)
    \/ run_finally(j)

---------------------------------------------------------------------------
(* Claims about starting and stopping.                                     *)

\* A task is executing run_crawling: the event loop has entered it and it
\* has not returned.
Executing(j) == pc[j] \notin {"idle", "pending", "done"}

\* C1: at most one run_crawling task is executing at any time.
C1_AtMostOneTaskExecuting ==
    \A i, j \in Jobs : Executing(i) /\ Executing(j) => i = j

\* C2: a start step taken while a job is running creates no task and leaves
\* results, processed_keywords, total_keywords, start_time and end_time as
\* they were; a start is accepted only when no job is running, and
\* accepting it sets the flag, so that of two starts arriving with no job
\* running the second finds the flag set.
C2_StartRejectedWhileRunning ==
    [][ /\ (is_running /\ \E req \in AllRequests :
                              start_crawling(req))
           => UNCHANGED << state_vars, task_vars, jobs >>
        /\ jobs' # jobs => ~is_running /\ is_running' /\ jobs' = jobs + 1
      ]_vars

\* C2 witness: a second job has been accepted after the first, and a job is
\* running, so that start requests are being rejected.
C2_Witness == jobs = 2 /\ is_running /\ pc[2] = "navigate"

---------------------------------------------------------------------------
(* Claims about results and snapshots.                                     *)

\* The notice an entry of results stands for: its bid number and its title.
BidKey(r) == << r.bid_number.text, r.bid_number.uuid, r.bid_title >>

\* C3: no two entries of results have the same bid number and title.
C3_NoDuplicateNotice ==
    \A p, q \in 1..Len(results) :
        p # q => BidKey(results[p]) # BidKey(results[q])

\* C4: the snapshot an accepted stop writes records as its item count the
\* length of results at the moment of the stop, and stores exactly the
\* entries of results.
C4_StopSnapshotMatchesResults ==
    written_by = "stop" =>
        /\ written.total_items = Len(results)
        /\ written.results = results

\* C4 witness: a stop has just written a snapshot of a job that had
\* collected entries and had processed more keywords than that.
C4_Witness ==
    /\ written_by = "stop"
    /\ Len(results) = 1
    /\ Len(processed_keywords) = 2

\* C5: the task of a started job has reached its end only after a snapshot
\* was written for the job.
C5_SnapshotBeforeTerminal ==
    \A j \in Jobs : (j = jobs /\ pc[j] = "done") => persisted

---------------------------------------------------------------------------
(* Claims about the loops of the task.                                     *)

\* C7 as stated: after a stop was accepted, and with no start accepted
\* since, the task of the job begins no keyword search and no item detail
\* extraction.
C7_NoOperationAfterStop == begun_after_stop = 0

\* C7: after a stop was accepted, and with no start accepted since, the
\* task of the job begins at most one more operation, the one whose check
\* of the flag came before the stop; every later check ends its loop.
C7_AtMostOneOperationAfterStop == begun_after_stop <= 1

\* C7 witness: the stop came while the task awaited send_log after a check
\* at the head of the item loop; the task began that extraction, then left
\* both loops and ended.
C7_Witness ==
    /\ stop_acked
    /\ begun_after_stop = 1
    /\ pc[1] = "done"
    /\ keywords[1] = <<"a">>

\* C8: while an item's detail extraction is in flight the browser of its
\* task is open.
C8_BrowserOpenDuringExtraction ==
    \A j \in Jobs : pc[j] = "detail" => driver_open[j]

\* C9: processed_keywords is never longer than the number of keywords of
\* the current job, and a step that leaves the job the same only appends to
\* it.
C9_ProcessedWithinTotal ==
    [][ /\ Len(processed_keywords) <= total_keywords
        /\ jobs' = jobs =>
              /\ Len(processed_keywords') >= Len(processed_keywords)
              /\ SubSeq(processed_keywords', 1, Len(processed_keywords))
                    = processed_keywords
      ]_vars

\* The first min(n, m) of the n candidates listed, for maxItems m.
FirstCandidates(j) ==
    SubSeq(all_items[j], 1, Min(Len(all_items[j]), max_items[j]))

\* C10: the candidates passed to detail extraction are the first min(n, m)
\* of the list, in list order and none beyond; when a keyword is finished
\* the entries of exactly the first min(n, m) candidates are appended to
\* results; a job of one keyword with three candidates and maxItems 2 ends
\* the keyword with two results and a status total of two.
C10_FirstMinCandidatesProcessed ==
    [][ \A j \in Jobs :
        /\ run_detail_begin(j) =>
              /\ item_idx[j] <= Len(FirstCandidates(j))
              /\ keyword_results[j][item_idx[j]] = all_items[j][item_idx[j]]
              /\ Len(detailed_items[j]) = item_idx[j] - 1
        /\ run_keyword_finish(j) =>
              /\ results' = results \o ConvertDictResultsToModel(
                                           FirstCandidates(j), j, idx[j])
              /\ \A p \in 1..Len(detailed_items[j]) :
                    /\ detailed_items[j][p].title = all_items[j][p].title
                    /\ detailed_items[j][p].bid_number
                          = all_items[j][p].bid_number
              /\ item_idx[j] > Len(keyword_results[j]) =>
                    Len(detailed_items[j]) = Len(FirstCandidates(j))
              /\ (Len(keywords[j]) = 1 /\ Len(all_items[j]) = 3
                     /\ max_items[j] = 2 /\ results = << >>) =>
                    /\ Len(results') = 2
                    /\ GetStatus'.total_items = 2
      ]_vars

\* C10 witness: the only keyword of a job listed three candidates, maxItems
\* was 2, both were extracted, and the keyword is finished.
C10_Witness ==
    /\ pc[1] = "kw_check"
    /\ idx[1] = 2
    /\ Len(all_items[1]) = 3
    /\ max_items[1] = 2
    /\ Len(results) = 2
    /\ results[2].bid_title = "t2"
    /\ GetStatus.total_items = 2

---------------------------------------------------------------------------
(* Claims about keywords.                                                  *)

\* C11: when the task handles a keyword whose search yielded no candidate,
\* the keyword is appended to processed_keywords (unless it is in it), a
\* status event is broadcast, and results and the total item count of the
\* status stay as they were.
C11_EmptyKeywordProcessed ==
    [][ \A j \in Jobs :
          (pc[j] = "kw_empty" /\ pc'[j] # "kw_empty") =>
             /\ processed_keywords' =
                   IF InSeq(keywords[j][idx[j]], processed_keywords)
                   THEN processed_keywords
                   ELSE Append(processed_keywords, keywords[j][idx[j]])
             /\ InSeq("status", sent'[j])
             /\ results' = results
             /\ GetStatus'.total_items = GetStatus.total_items
      ]_vars

\* C11 witness: keyword "c", which lists nothing, was handled after a
\* keyword with a result: it is processed, the status was broadcast, and
\* the result of the earlier keyword is in results.
C11_Witness ==
    /\ pc[1] = "kw_check"
    /\ idx[1] = 3
    /\ processed_keywords = <<"b", "c">>
    /\ sent[1] = <<"status">>
    /\ Len(results) = 1

\* C12: when the processing of a keyword raises, the task stays in the
\* keyword loop: results and is_running are left as they were, and the
\* loop goes to its head for the next keyword in order.
C12_KeywordExceptionContinues ==
    [][ \A j \in Jobs :
          (pc[j] = "kw_log" /\ pc'[j] \notin {"kw_log", "kw_empty",
                                               "item_check"}) =>
             /\ pc'[j] = "kw_check"
             /\ idx'[j] = idx[j] + 1
             /\ keywords'[j] = keywords[j]
             /\ results' = results
             /\ is_running' = is_running
      ]_vars

\* C12 witness: the second of three keywords raised; the result of the
\* first is kept, the job is running, and the loop is at the third.
C12_Witness ==
    /\ pc[1] = "kw_log"
    /\ idx[1] = 3
    /\ processed_keywords = <<"b">>
    /\ Len(results) = 1
    /\ is_running

\* C13: when the task is back at the head of the keyword loop after a
\* keyword, the step that ended the keyword broadcast both a result event
\* and a status event.
C13_ResultAndStatusAfterKeyword ==
    \A j \in Jobs :
        (pc[j] = "kw_check" /\ idx[j] > 1) =>
            InSeq("status", sent[j]) /\ InSeq("result", sent[j])

\* C14: within one job results only grows: every step that is not the
\* start of a new job (a failed or raising keyword, a failed navigation, a
\* failed item extraction, a stop) leaves every entry of results in its
\* place, so that results as it was is a prefix of results as it is.
C14_ResultsOnlyGrow ==
    [][ jobs' = jobs =>
           /\ Len(results') >= Len(results)
           /\ SubSeq(results', 1, Len(results)) = results
      ]_vars

\* C14 witness: after a keyword with a result, a keyword that raised and a
\* stop during the third, results holds the first keyword's entry and the
\* third's after it.
C14_Witness ==
    /\ pc[1] = "done"
    /\ stop_acked
    /\ processed_keywords = <<"b", "d">>
    /\ Len(results) = 2
    /\ results[1].id = Uuid(1, 1, 1)
    /\ results[2].id = Uuid(1, 3, 1)

---------------------------------------------------------------------------
(* Claims about detail extraction.                                         *)

\* The entry carries an error marker.
HasErrorMarker(r) == "detail" \in DOMAIN r /\ r.detail = "error"

\* C15: a candidate whose detail extraction failed does not end the item
\* loop, and when the keyword is finished its output holds an entry for
\* that candidate, with the fields gathered from the list and an error
\* marker.
C15_FailedCandidateKeptWithMarker ==
    [][ \A j \in Jobs :
          (pc[j] = "kw_finish" /\ pc'[j] # "kw_finish") =>
             \A p \in 1..Len(detailed_items[j]) :
                detailed_items[j][p].detail = "error" =>
                   \E q \in 1..Len(detailed_items'[j]) :
                      /\ detailed_items'[j][q].bid_title =
                            detailed_items[j][p].title
                      /\ HasErrorMarker(detailed_items'[j][q])
                      /\ InSeq(detailed_items'[j][q], results')
      ]_vars

---------------------------------------------------------------------------
\* G2BParser.parse_detail_page (src/backend/crawler/g2b_parser.py), which
\* G2BCrawler.process_detail_page awaits for the page of one candidate.
\*
\* A text is the sequence of its lines.  None and the empty text, which the
\* function does not tell apart (it tests "not value"), are both NoText.
NoText == << >>

\* Number of lines in a reply of the text service.
MaxReplyLines == 2

EmptyDict == [k \in {} |-> NoText]

Get(d, k) == IF k \in DOMAIN d THEN d[k] ELSE NoText

\* The item names a reply may carry, after the list of the prompt:
\*   "bid method"             4. 입찰방식
\*   "contract method"        6. 계약방법
\*   "price information"      10. 가격과 관련된 모든정보(예가방법, 사업금액, ...)
\*   "estimated price"        추정가격
\*   "contract period / delivery deadline"   12. 계약기간/납품기한
\*   "delivery place"         13. 납품장소
\*   "qualification"          14. 참가자격
\*   "requirements"           자격요건
\*   "attachments"            15. 파일첨부
ReplyKeys == { "bid method", "contract method", "price information",
               "estimated price", "contract period / delivery deadline",
               "delivery place", "qualification", "requirements",
               "attachments" }

NoKey == "none"

\* The words of the merge conditions that an item name contains:
\* 계약방법 "contract method", 입찰방식 "bid method", 추정가격 "estimated
\* price", 사업금액 "project amount", 기초금액 "base amount", 계약기간
\* "contract period", 납품기한 "delivery deadline", 납품장소 "delivery
\* place", 이행장소 "performance place", 참가자격 "qualification", 자격요건
\* "requirements".
WordsIn(key) ==
    CASE key = "price information" -> { "project amount" }
      [] key = "contract period / delivery deadline" ->
            { "contract period", "delivery deadline" }
      [] key = "attachments" -> { }
      [] OTHER -> { key }

\* "word" in key.lower()
Has(key, word) == word \in WordsIn(key)

\* The lines of a reply: "N. key: text", "N. : text" whose key is the
\* empty string, "N. key" with no colon, a line that does not begin with a
\* number, and a blank line.
ReplyLines ==
    [kind : {"item"}, key : ReplyKeys, text : {"x", "y"}]
    \cup [kind : {"item"}, key : {""}, text : {"w"}]
    \cup [kind : {"head"}, key : {"attachments"}, text : {""}]
    \cup [kind : {"more"}, key : {NoKey}, text : {"z"}]
    \cup [kind : {"blank"}, key : {NoKey}, text : {""}]

\* result[key] = value on a dict that keeps the order of insertion: the
\* dict is the sequence of its (key, value) pairs.
DictSet(result, key, value) ==
    IF \E i \in 1..Len(result) : result[i].key = key
    THEN [i \in 1..Len(result) |->
            IF result[i].key = key THEN [key |-> key, value |-> value]
            ELSE result[i]]
    ELSE Append(result, [key |-> key, value |-> value])

\* "if current_key": None and the empty string are false.
KeySet(key) == key # NoKey /\ key # ""

RECURSIVE ParseLines(_, _, _, _)
\* The loop of _parse_gemini_text_to_json over the lines left, with its
\* locals result, current_key and current_value, and the store of the last
\* item after the loop.  The value of an item is the sequence of the lines
\* the code joins.
ParseLines(lines, result, current_key, current_value) ==
    LET full == KeySet(current_key) /\ current_value # << >>
        stored == IF full THEN DictSet(result, current_key, current_value)
                  ELSE result
    IN  IF lines = << >> THEN stored
        ELSE LET line == Head(lines)
                 rest == Tail(lines)
             IN  CASE line.kind = "blank" ->
                        ParseLines(rest, result, current_key, current_value)
                   [] line.kind = "item" ->
                        ParseLines(rest, stored, line.key,
                                   IF full THEN << line.text >>
                                   ELSE Append(current_value, line.text))
                   [] line.kind = "head" ->
                        ParseLines(rest, stored, line.key,
                                   IF full THEN << >> ELSE current_value)
                   [] line.kind = "more" ->
                        IF KeySet(current_key)
                        THEN ParseLines(rest, result, current_key,
                                        Append(current_value, line.text))
                        ELSE ParseLines(rest, result, current_key,
                                        current_value)

\* G2BParser._parse_gemini_text_to_json(text)
ParseGeminiTextToJson(text) == ParseLines(text, << >>, NoKey, << >>)

\* One pass of the loop "for key, value in parsed_result.items()".
MergeItem(d, key, value) ==
    IF Has(key, "contract method") /\ Get(d, "contract_method") = NoText
    THEN Put(d, "contract_method", value)
    ELSE IF Has(key, "bid method") /\ Get(d, "bid_type") = NoText
    THEN Put(d, "bid_type", value)
    ELSE IF \/ Has(key, "estimated price")
            \/ Has(key, "project amount")
            \/ Has(key, "base amount")
    THEN Put(d, "estimated_price", value)
    ELSE IF Has(key, "contract period") \/ Has(key, "delivery deadline")
    THEN Put(d, "contract_period", value)
    ELSE IF Has(key, "delivery place") \/ Has(key, "performance place")
    THEN Put(d, "delivery_location", value)
    ELSE IF Has(key, "qualification") \/ Has(key, "requirements")
    THEN Put(d, "qualification", value)
    ELSE d

\* The pages a call is made for: whether the page has a table with a body,
\* and the agency and the staff named in its agency section, if any.
Pages ==
    [bid_number : {<< "n1" >>}, bid_title : {<< "t1" >>},
     tables : BOOLEAN, organization : {NoText, << "agency" >>},
     division : {NoText, << "staff" >>}]

NoPage ==
    [bid_number |-> NoText, bid_title |-> NoText, tables |-> FALSE,
     organization |-> NoText, division |-> NoText]

ParserFrame ==
    UNCHANGED << crawl_vars, list_vars, bus_vars, snap_vars, nav_vars,
                 detail_vars,
                 popup_vars,
                 class_vars,
                 bidlist_vars >>

\* No call of the parser is under way.
ParserIdle ==
    /\ html = NoPage
    /\ response = << >>
    /\ parse_pc = "idle"
    /\ detail_data = EmptyDict
    /\ merge_left = << >>
    /\ parse_ret = EmptyDict

\* A call begins, for any page and any reply of the text service.  The
\* service is asked only for a page with tables.
ParserInit ==
    /\ html \in Pages
    /\ response \in SeqUpTo(ReplyLines, MaxReplyLines)
    /\ ~html.tables => response = << >>
    /\ parse_pc = "start"
    /\ detail_data = EmptyDict
    /\ merge_left = << >>
    /\ parse_ret = EmptyDict

\* Lines 43-54 and 56-175: detail_data is initialised and the tables of the
\* page are stored; with tables the text service is called next.
parse_tables ==
    /\ parse_pc = "start"
    /\ LET d == [bid_number |-> html.bid_number,
                 bid_title |-> html.bid_title,
                 organization |-> NoText,
                 division |-> NoText,
                 contract_method |-> NoText,
                 bid_type |-> NoText,
                 estimated_price |-> NoText,
                 qualification |-> NoText,
                 description |-> NoText,
                 raw_tables |-> html.tables]
       IN  detail_data' = IF html.tables
                          THEN Put(d, "file_attachments", NoText)
                          ELSE d
    /\ parse_pc' = IF html.tables THEN "gemini" ELSE "sections"
    /\ ParserFrame
    /\ UNCHANGED << html, response, merge_left, parse_ret >>

\* Lines 178-210: the call of the text service raises; the except logs.
GeminiRaises(escapes) ==
    /\ parse_pc = "gemini"
    /\ parse_pc' = IF escapes THEN "done" ELSE "sections"
    /\ ParserFrame
    /\ UNCHANGED << html, response, detail_data, merge_left, parse_ret >>

gemini_raises_escaping == GeminiRaises(TRUE)

gemini_raises == GeminiRaises(FALSE)

\* Lines 179-191: the service replies; the reply is stored and parsed.
gemini_replies ==
    /\ parse_pc = "gemini"
    /\ LET parsed_result == ParseGeminiTextToJson(response)
       IN  /\ detail_data' = Put(Put(detail_data, "prompt_result", response),
                                 "prompt_result_parsed", parsed_result)
           /\ merge_left' = parsed_result
    /\ parse_pc' = "merge"
    /\ ParserFrame
    /\ UNCHANGED << html, response, parse_ret >>

\* Lines 194-206: one item of the parsed reply is merged.
merge_item ==
    /\ parse_pc = "merge"
    /\ merge_left # << >>
    /\ detail_data' = MergeItem(detail_data, Head(merge_left).key,
                                Head(merge_left).value)
    /\ merge_left' = Tail(merge_left)
    /\ ParserFrame
    /\ UNCHANGED << html, response, parse_pc, parse_ret >>

\* Line 208: the loop is over.
merge_done ==
    /\ parse_pc = "merge"
    /\ merge_left = << >>
    /\ parse_pc' = "sections"
    /\ ParserFrame
    /\ UNCHANGED << html, response, detail_data, merge_left, parse_ret >>

\* Lines 215-261: the agency section is read, the time is recorded and
\* detail_data is returned.  "department" is never set, so an agency not
\* found stays None.
parse_sections ==
    /\ parse_pc = "sections"
    /\ LET d1 == IF html.organization # NoText
                 THEN Put(detail_data, "organization", html.organization)
                 ELSE detail_data
           d2 == IF html.division # NoText
                 THEN Put(d1, "division", html.division)
                 ELSE d1
           d3 == IF Get(d2, "organization") = NoText
                 THEN Put(d2, "organization", Get(d2, "department"))
                 ELSE d2
           d4 == Put(d3, "extracted_time", << "now" >>)
       IN  /\ detail_data' = d4
           /\ parse_ret' = d4
    /\ parse_pc' = "done"
    /\ ParserFrame
    /\ UNCHANGED << html, response, merge_left >>

parse_detail_page ==
    \/ parse_tables
    \/ gemini_raises
    \/ gemini_replies
    \/ merge_item
    \/ merge_done
    \/ parse_sections

\* The fields of detail_data that the merge of the reply assigns.
CanonicalFields ==
    { "contract_method", "bid_type", "estimated_price", "contract_period",
      "delivery_location", "qualification" }

\* C16: a value taken from the reply of the text service never replaces a
\* value that one of the six canonical fields already has; the merge only
\* fills fields that are still empty.
C16_AIValueNeverReplaces ==
    [][\A f \in CanonicalFields :
          Get(detail_data, f) # NoText
              => Get(detail_data', f) = Get(detail_data, f)]_vars

\* C17: when the call of the text service raises, or its reply holds no
\* item that can be parsed, parse_detail_page still returns the mapping
\* with the fields extracted from the structure of the page.
C17_StructuralFieldsDespiteAIFailure ==
    ( /\ parse_pc = "done"
      /\ html.tables
      /\ \/ "prompt_result" \notin DOMAIN detail_data
         \/ Get(detail_data, "prompt_result_parsed") = << >> )
    => /\ { "bid_number", "bid_title", "organization", "division",
            "raw_tables", "extracted_time" } \subseteq DOMAIN parse_ret
       /\ parse_ret.bid_number = html.bid_number
       /\ parse_ret.bid_title = html.bid_title
       /\ parse_ret.organization = html.organization
       /\ parse_ret.division = html.division
       /\ parse_ret.raw_tables

\* The service raised for a page that names its agency and staff.
C17_Witness ==
    /\ parse_pc = "done"
    /\ html.tables
    /\ "prompt_result" \notin DOMAIN parse_ret
    /\ Get(parse_ret, "organization") = << "agency" >>
    /\ Get(parse_ret, "division") = << "staff" >>

---------------------------------------------------------------------------
\* G2BSearcher.extract_search_results (src/backend/crawler/g2b_search.py)
\* called on its own, for every page.

\* Number of rows a strategy yields on a page.
MaxListRows == 1

ListRows == { Row("t1", "n1"), Row("t2", "") }

\* When the page source cannot be read the driver is gone and the live page
\* yields nothing either.
ListPages ==
    { p \in [readable : BOOLEAN,
             table : SeqUpTo(ListRows, MaxListRows),
             cells : SeqUpTo(ListRows, MaxListRows),
             grid : SeqUpTo(ListRows, MaxListRows),
             dom_cells : SeqUpTo(ListRows, MaxListRows),
             dom_rows : 0..MaxListRows] :
        ~p.readable => /\ p.table = << >> /\ p.cells = << >>
                       /\ p.grid = << >> /\ p.dom_cells = << >>
                       /\ p.dom_rows = 0 }

NoResultPage == ResultPage(FALSE, << >>, << >>, << >>, << >>, 0)

ListFrame ==
    UNCHANGED << crawl_vars, parser_vars, bus_vars, snap_vars, nav_vars,
                 detail_vars,
                 popup_vars,
                 class_vars,
                 bidlist_vars >>

\* No call of the searcher is under way.
ListIdle ==
    /\ list_page = NoResultPage
    /\ list_keyword = ""
    /\ list_pc = "idle"
    /\ list_ret = << >>

\* A call begins, on any page.
ListInit ==
    /\ list_page \in ListPages
    /\ list_keyword \in {"a", "b"}
    /\ list_pc = "start"
    /\ list_ret = << >>

\* Lines 205-211: the parsed page is tried first; its rows are returned
\* when there are any, and a raise is logged.
list_bs4 ==
    /\ list_pc = "start"
    /\ LET bs4 == ExtractSearchResultsBs4(list_page, list_keyword) IN
       IF ~bs4.raised /\ bs4.items # << >>
       THEN list_ret' = bs4.items /\ list_pc' = "done"
       ELSE list_ret' = << >> /\ list_pc' = "cell_ids"
    /\ ListFrame
    /\ UNCHANGED << list_page, list_keyword >>

\* Lines 218-274: the cells of the live page, by their ids.
list_cell_ids ==
    /\ list_pc = "cell_ids"
    /\ IF list_page.dom_cells # << >>
       THEN list_ret' = list_page.dom_cells /\ list_pc' = "done"
       ELSE list_ret' = << >> /\ list_pc' = "dom_table"
    /\ ListFrame
    /\ UNCHANGED << list_page, list_keyword >>

\* Lines 277-302: the tables of the live page.
list_dom_table ==
    /\ list_pc = "dom_table"
    /\ IF DomTableItems(list_page) # << >>
       THEN list_ret' = DomTableItems(list_page) /\ list_pc' = "done"
       ELSE list_ret' = << >> /\ list_pc' = "dom_xpath"
    /\ ListFrame
    /\ UNCHANGED << list_page, list_keyword >>

\* Lines 305-333: all rows of the live page, and the final return.
list_dom_xpath ==
    /\ list_pc = "dom_xpath"
    /\ list_ret' = DomXPathItems(list_page)
    /\ list_pc' = "done"
    /\ ListFrame
    /\ UNCHANGED << list_page, list_keyword >>

extract_search_results ==
    \/ list_bs4
    \/ list_cell_ids
    \/ list_dom_table
    \/ list_dom_xpath

AllStrategiesFail(page) ==
    /\ ExtractSearchResultsBs4(page, "").items = << >>
    /\ page.dom_cells = << >>
    /\ DomTableItems(page) = << >>
    /\ DomXPathItems(page) = << >>

\* C19: when every strategy yields nothing or raises on the page of a
\* keyword, the task finds no results for it (it never enters the item
\* loop, and results are left as they were), and it then marks the keyword
\* as processed and goes on with the job.
C19_NoResultsKeywordProcessed ==
    [][\A j \in Jobs :
          ( /\ pc[j] \in {"kw_log", "kw_empty"}
            /\ pc'[j] # pc[j]
            /\ AllStrategiesFail(PortalPage(keywords[j][idx[j]])) )
          => /\ results' = results
             /\ is_running' = is_running
             /\ pc[j] = "kw_log"
                   => /\ pc'[j] \in {"kw_empty", "kw_check"}
                      /\ pc'[j] = "kw_empty" => all_items'[j] = << >>
             /\ pc[j] = "kw_empty"
                   => /\ pc'[j] = "kw_check"
                      /\ InSeq(keywords[j][idx[j]], processed_keywords')
      ]_vars

\* Keyword "c", whose page no strategy reads, has been marked as processed
\* and the job goes on with the next keyword.
C19_Witness ==
    /\ pc[1] = "kw_log"
    /\ idx[1] = 3
    /\ AllStrategiesFail(PortalPage(keywords[1][2]))
    /\ InSeq(keywords[1][2], processed_keywords)
    /\ is_running

---------------------------------------------------------------------------
\* WebSocketManager (src/app.py 89-138) and the websocket endpoint (lines
\* 679-714).  broadcast awaits each send, so endpoints connect and
\* disconnect between two sends of one broadcast.  One broadcast is under
\* way at a time.

\* Number of websocket clients and of events broadcast.
MaxClients == 2

MaxEvents == 2

\* List objects bound to processed_keywords in turn, and appends to a list.
MaxSnapLists == 2

MaxSnapAppends == 2

\* Calls of the crawler's methods.
MaxNavCalls == 5

\* Rows of a results list beyond row 0, and calls of the detail processor.
MaxDetailRows == 2

MaxDetailCalls == 3

\* Close buttons a page shows and interruptions a close may reveal.
MaxPagePopups == 5

MaxHiddenPopups == 1

\* Iframes of a page that show a close button.
MaxFrames == 2

\* Day numbers of the end dates and of the current date.
MaxDay == 2

\* max_attempts of _close_popups.
MaxAttempts == 5

\* range(3) of navigate_to_bid_list.
MaxListAttempts == 3

Clients == 1..MaxClients

ToSet(s) == { s[i] : i \in 1..Len(s) }

\* list.remove(x) for an x that is in the list.
RemoveFirst(s, x) ==
    LET i == CHOOSE n \in 1..Len(s) :
                 s[n] = x /\ \A m \in 1..(n - 1) : s[m] # x
    IN  SubSeq(s, 1, i - 1) \o SubSeq(s, i + 1, Len(s))

RECURSIVE RemoveClients(_, _)
\* Lines 133-135: every client whose send failed is removed when it is
\* still in the list.
RemoveClients(conns, gone) ==
    IF gone = << >> THEN conns
    ELSE RemoveClients(IF Head(gone) \in ToSet(conns)
                       THEN RemoveFirst(conns, Head(gone))
                       ELSE conns,
                       Tail(gone))

\* No client has connected and nothing is broadcast.
BusInit ==
    /\ ws_state = [c \in Clients |-> "new"]
    /\ active_connections = << >>
    /\ message = 0
    /\ events = 0
    /\ it_index = 0
    /\ disconnected_clients = << >>
    /\ received = [c \in Clients |-> {}]
    /\ members = {}
    /\ removed = {}
    /\ sends = [c \in Clients |-> 0]

BusFrame ==
    UNCHANGED << crawl_vars, parser_vars, list_vars, snap_vars, nav_vars,
                 detail_vars,
                 popup_vars,
                 class_vars,
                 bidlist_vars >>

\* Lines 682 and 94-96: a client connects and is appended.
ws_connect(c) ==
    /\ ws_state[c] = "new"
    /\ ws_state' = [ws_state EXCEPT ![c] = "open"]
    /\ active_connections' = Append(active_connections, c)
    /\ BusFrame
    /\ UNCHANGED << message, events, it_index, disconnected_clients,
                    received, members, removed, sends >>

\* The peer of a client stops reading while its connection stays up: from
\* now on the send awaited at line 127 does not complete for it.
ws_stall(c) ==
    /\ ws_state[c] = "open"
    /\ ws_state' = [ws_state EXCEPT ![c] = "stalled"]
    /\ BusFrame
    /\ UNCHANGED << active_connections, message, events, it_index,
                    disconnected_clients, received, members, removed, sends >>

\* The peer of a client goes away: from now on a send to it fails, and
\* receive_text in its endpoint will raise.
ws_close(c) ==
    /\ ws_state[c] \in {"open", "stalled"}
    /\ ws_state' = [ws_state EXCEPT ![c] = "closed"]
    /\ BusFrame
    /\ UNCHANGED << active_connections, message, events, it_index,
                    disconnected_clients, received, members, removed, sends >>

\* Lines 712-714 and 99-100: the endpoint of a client that went away runs
\* its finally.  list.remove raises ValueError when a broadcast has
\* removed the client already, and the exception leaves the endpoint; the
\* endpoint ends either way.
ws_disconnect(c) ==
    /\ ws_state[c] = "closed"
    /\ ws_state' = [ws_state EXCEPT ![c] =
                       IF c \in ToSet(active_connections) THEN "gone"
                       ELSE "failed"]
    /\ active_connections' = IF c \in ToSet(active_connections)
                             THEN RemoveFirst(active_connections, c)
                             ELSE active_connections
    /\ BusFrame
    /\ UNCHANGED << message, events, it_index, disconnected_clients,
                    received, members, removed, sends >>

\* Lines 121-125: a broadcast begins; the for loop takes an iterator on the
\* list itself.
broadcast_begin ==
    /\ message = 0
    /\ events < MaxEvents
    /\ events' = events + 1
    /\ message' = events + 1
    /\ it_index' = 0
    /\ disconnected_clients' = << >>
    /\ members' = ToSet(active_connections)
    /\ sends' = [c \in Clients |-> 0]
    /\ BusFrame
    /\ UNCHANGED << ws_state, active_connections, received, removed >>

\* Lines 125-130: the iterator yields the element at its index, and the
\* send to that client is awaited; it raises when the peer has gone, and
\* the loop goes on only when the awaited send has completed or raised.
broadcast_send ==
    /\ message # 0
    /\ it_index < Len(active_connections)
    /\ LET client == active_connections[it_index + 1] IN
       /\ ws_state[client] # "stalled"
       /\ IF ws_state[client] = "open"
          THEN /\ received' = [received EXCEPT ![client] = @ \cup {message}]
               /\ sends' = [sends EXCEPT ![client] = @ + 1]
               /\ UNCHANGED disconnected_clients
          ELSE /\ disconnected_clients' =
                      Append(disconnected_clients, client)
               /\ UNCHANGED << received, sends >>
    /\ it_index' = it_index + 1
    /\ BusFrame
    /\ UNCHANGED << ws_state, active_connections, message, events, members,
                    removed >>

\* Lines 125 and 132-138: the iterator is exhausted and the clients whose
\* send failed are removed.
broadcast_end ==
    /\ message # 0
    /\ it_index >= Len(active_connections)
    /\ active_connections' =
          RemoveClients(active_connections, disconnected_clients)
    /\ removed' = removed \cup (ToSet(disconnected_clients)
                                \cap ToSet(active_connections))
    /\ message' = 0
    /\ it_index' = 0
    /\ disconnected_clients' = << >>
    /\ members' = {}
    /\ BusFrame
    /\ UNCHANGED << ws_state, events, received, sends >>

broadcast ==
    \/ broadcast_begin
    \/ broadcast_send
    \/ broadcast_end

\* C20: when a broadcast ends, every subscriber whose send failed in it is
\* out of the subscriber list, every other subscriber that was in the list
\* when the broadcast began, is still in it and has not gone away has
\* received the event, and no subscriber a broadcast removed is in the list
\* that later broadcasts send to.
C20_FailedRemovedOthersReceive ==
    [][/\ (message # 0 /\ message' = 0)
          => /\ \A c \in ToSet(disconnected_clients) :
                    c \notin ToSet(active_connections')
             /\ \A c \in members :
                    (c \in ToSet(active_connections')
                        /\ ws_state[c] = "open")
                    => message \in received'[c]
       /\ removed' \cap ToSet(active_connections') = {}
      ]_vars

\* C21: whatever connects and disconnects happen while an event is being
\* broadcast, no subscriber is sent the event twice, and when the broadcast
\* ends every subscriber that was in the list when it began, is still in
\* it and whose socket is open has been sent the event exactly once.
C21_EachSubscriberExactlyOnce ==
    [][/\ \A c \in Clients : sends'[c] <= 1
       /\ (message # 0 /\ message' = 0)
          => \A c \in members :
                (c \in ToSet(active_connections) /\ ws_state[c] = "open")
                => sends[c] = 1
      ]_vars

\* C22: the task that publishes an event is never held up by a subscriber:
\* while a broadcast is in progress its loop can take its next step or
\* return to the caller.
C22_PublishNeverBlocks ==
    message # 0 => ENABLED (broadcast_send \/ broadcast_end)

---------------------------------------------------------------------------
(* Status snapshots: CrawlingState.get_status and its readers              *)

\* Python lists are objects: a name or a dict entry holds a reference to
\* one, and an append through one reference is seen through all.  List
\* objects are numbered; heap[i] is the content of object i.
ListIds == 1..MaxSnapLists

Ref(i) == [kind |-> "ref", at |-> i, items |-> << >>]

Val(xs) == [kind |-> "val", at |-> 0, items |-> xs]

\* What a reference or a copy reads as now.
Deref(x) == IF x.kind = "ref" THEN heap[x.at] ELSE x.items

\* No status has been read, and no message holds one.
NoStatus == [processed_keywords |-> << >>, total_items |-> 0 - 1]

NoMessage == [processed_keywords |-> Val(<< >>), total_items |-> 0 - 1]

\* Lines 269-278: the dict get_status builds.  Its processed_keywords entry
\* is the list object of the state itself; total_items is a number.
StatusDict ==
    [processed_keywords |-> Ref(pk), total_items |-> total_items]

\* A status as a reader sees it now.
Seen(st) ==
    [processed_keywords |-> Deref(st.processed_keywords),
     total_items |-> st.total_items]

\* broadcast that sends the message object it was given.
SerializeModels_alias(st) == st

\* Lines 106-121: serialize_models rebuilds every dict and every list of
\* the message, so the message that is sent holds new list objects.
SerializeModels(st) ==
    [processed_keywords |-> Val(Deref(st.processed_keywords)),
     total_items |-> st.total_items]

\* Lines 383-389 and 685-688: the dict the handler returns is encoded to
\* JSON text by the framework before the event loop runs another task.
JsonEncode(st) ==
    [processed_keywords |-> Val(Deref(st.processed_keywords)),
     total_items |-> st.total_items]

SnapInit ==
    /\ heap = [i \in ListIds |-> << >>]
    /\ pk = 1
    /\ total_items = 0
    /\ status_message = NoMessage
    /\ status_to = {}
    /\ delivered = [c \in Clients |-> NoStatus]
    /\ http_body = NoMessage
    /\ taken = NoStatus
    /\ http_taken = NoStatus

SnapFrame ==
    UNCHANGED << crawl_vars, parser_vars, list_vars, bus_vars, nav_vars,
                 detail_vars,
                 popup_vars,
                 class_vars,
                 bidlist_vars >>

\* Lines 514-515: a start binds results and processed_keywords to new
\* empty lists.
snap_reset ==
    /\ pk < MaxSnapLists
    /\ pk' = pk + 1
    /\ total_items' = 0
    /\ SnapFrame
    /\ UNCHANGED << heap, status_message, status_to, delivered, http_body,
                    taken, http_taken >>

\* Lines 859-865 and 873-874: the job appends to results and to
\* processed_keywords, in place.
snap_append ==
    /\ SnapFrame
    /\ UNCHANGED << pk, status_message, status_to, delivered, http_body,
                    taken, http_taken >>
    /\ \/ /\ Len(heap[pk]) < MaxSnapAppends
          /\ heap' = [heap EXCEPT ![pk] = Append(@, Len(@) + 1)]
          /\ UNCHANGED total_items
       \/ /\ total_items < MaxSnapAppends
          /\ total_items' = total_items + 1
          /\ UNCHANGED heap

\* Lines 561 (also 520, 868, 877, 909), 151-156 and 103-121:
\* send_status(get_status()) runs up to the first await of broadcast.
status_begin ==
    /\ status_message = NoMessage
    /\ status_message' = SerializeModels(StatusDict)
    /\ taken' = Seen(StatusDict)
    /\ status_to' = {}
    /\ delivered' = [c \in Clients |-> NoStatus]
    /\ SnapFrame
    /\ UNCHANGED << heap, pk, total_items, http_body, http_taken >>

\* Lines 125-127: send_json encodes the message when it is called for the
\* client.
status_send(c) ==
    /\ status_message # NoMessage
    /\ c \notin status_to
    /\ status_to' = status_to \cup {c}
    /\ delivered' = [delivered EXCEPT ![c] = Seen(status_message)]
    /\ SnapFrame
    /\ UNCHANGED << heap, pk, total_items, status_message, http_body, taken,
                    http_taken >>

\* Line 125: every client has been sent to.
status_end ==
    /\ status_message # NoMessage
    /\ status_to = Clients
    /\ status_message' = NoMessage
    /\ SnapFrame
    /\ UNCHANGED << heap, pk, total_items, status_to, delivered, http_body,
                    taken, http_taken >>

\* Lines 383-389: GET /api/status.
get_status ==
    /\ http_body' = JsonEncode(StatusDict)
    /\ http_taken' = Seen(StatusDict)
    /\ SnapFrame
    /\ UNCHANGED << heap, pk, total_items, status_message, status_to,
                    delivered, taken >>

---------------------------------------------------------------------------
(* G2BCrawler: navigation and the tracked page                             *)

\* The crawler reads and writes the tracked page only through
\* self.base.set_page_state and self.base.is_on_page (and current_page in
\* close); their bodies are taken from section 4.1 of the specification:
\* markReached stores the page, requireState compares with it.
SetPageState(p) == current_page' = p

IsOnPage(p) == current_page = p

NavInit ==
    /\ current_page = "unset"
    /\ browser_page = "blank"
    /\ nav_op = "none"
    /\ prev_page = "unset"
    /\ nav_ret = FALSE
    /\ navigated = "no"
    /\ parsed_on = "none"
    /\ nav_calls = 0

NavFrame ==
    UNCHANGED << crawl_vars, parser_vars, list_vars, bus_vars, snap_vars,
                 detail_vars,
                 popup_vars,
                 class_vars,
                 bidlist_vars >>

\* One more call of the crawler, of method op.
NavCall(op) ==
    /\ nav_calls < MaxNavCalls
    /\ nav_calls' = nav_calls + 1
    /\ nav_op' = op
    /\ prev_page' = current_page
    /\ NavFrame

\* g2b_navigation.py 53-128: the navigator goes to the main page, clicks
\* through the menu up to three times and returns True once the search
\* button of the bid list is present; every failure ends in False.
NavigatorBidList(ok) ==
    IF ok
    THEN /\ browser_page # "closed"
         /\ browser_page' = "bid_list"
    ELSE browser_page' \in IF browser_page = "closed" THEN {"closed"}
                           ELSE {"main", "other"}

\* Lines 134-145.
navigate_to_main ==
    /\ NavCall("navigate_to_main")
    /\ navigated' = "no"
    /\ parsed_on' = "none"
    /\ \/ /\ browser_page # "closed"
          /\ browser_page' = "main"
          /\ nav_ret' = TRUE
          /\ SetPageState("main")
       \/ /\ browser_page' \in IF browser_page = "closed" THEN {"closed"}
                               ELSE {browser_page, "other"}
          /\ nav_ret' = FALSE
          /\ UNCHANGED current_page

\* navigate_to_bid_list without the check of line 151.
navigate_to_bid_list_always ==
    /\ NavCall("navigate_to_bid_list")
    /\ parsed_on' = "none"
    /\ \/ /\ NavigatorBidList(TRUE)
          /\ navigated' = "ok"
          /\ nav_ret' = TRUE
          /\ SetPageState("bid_list")
       \/ /\ NavigatorBidList(FALSE)
          /\ navigated' = "failed"
          /\ nav_ret' = FALSE
          /\ UNCHANGED current_page

\* Lines 147-163: nothing is done on the bid list; else the navigator is
\* driven, and only its success is recorded.
navigate_to_bid_list ==
    /\ NavCall("navigate_to_bid_list")
    /\ parsed_on' = "none"
    /\ \/ /\ IsOnPage("bid_list")
          /\ navigated' = "no"
          /\ nav_ret' = TRUE
          /\ UNCHANGED << current_page, browser_page >>
       \/ /\ ~IsOnPage("bid_list")
          /\ NavigatorBidList(TRUE)
          /\ navigated' = "ok"
          /\ nav_ret' = TRUE
          /\ SetPageState("bid_list")
       \/ /\ ~IsOnPage("bid_list")
          /\ NavigatorBidList(FALSE)
          /\ navigated' = "failed"
          /\ nav_ret' = FALSE
          /\ UNCHANGED current_page

\* Lines 175-221 (skip_navigation is False in every call of app.py).  The
\* searcher (g2b_search.py 86-149) returns True once it has clicked the
\* search button and slept; it looks at no marker of the page that follows.
search_keyword ==
    /\ NavCall("search_keyword")
    /\ parsed_on' = "none"
    /\ \/ /\ ~IsOnPage("bid_list")
          /\ NavigatorBidList(FALSE)
          /\ navigated' = "failed"
          /\ nav_ret' = FALSE
          /\ UNCHANGED current_page
       \/ LET shown == IF IsOnPage("bid_list") THEN browser_page
                        ELSE "bid_list"
          IN  /\ IF IsOnPage("bid_list")
                 THEN navigated' = "no"
                 ELSE navigated' = "ok" /\ browser_page # "closed"
              /\ \/ /\ browser_page' = shown
                    /\ nav_ret' = FALSE
                    /\ SetPageState("bid_list")
                 \/ /\ shown = "bid_list"
                    /\ browser_page' \in {"search_results", "other"}
                    /\ nav_ret' = TRUE
                    /\ SetPageState("search_results")

\* Lines 223-279: the source of the page the browser shows is read and
\* parsed, and the tracked page is set; the browser is not driven.
process_detail_page ==
    /\ NavCall("process_detail_page")
    /\ navigated' = "no"
    /\ UNCHANGED browser_page
    /\ \/ /\ nav_ret' = FALSE
          /\ parsed_on' = "none"
          /\ UNCHANGED current_page
       \/ /\ browser_page # "closed"
          /\ nav_ret' = TRUE
          /\ parsed_on' = browser_page
          /\ SetPageState("detail_page")

\* Lines 124-132.
close ==
    /\ NavCall("close")
    /\ browser_page' = "closed"
    /\ current_page' = "unset"
    /\ nav_ret' = TRUE
    /\ navigated' = "no"
    /\ parsed_on' = "none"

C28_DetailOpenedBeforeParse ==
    [][(nav_calls' = nav_calls + 1 /\ nav_op' = "process_detail_page"
           /\ parsed_on' # "none")
          => parsed_on' = "detail"
      ]_vars

---------------------------------------------------------------------------
\* The title of an entry of results: a dict of the searcher or a BidItem.
TitleOf(r) == IF "bid_title" \in DOMAIN r THEN r.bid_title ELSE r.title

\* The entry holds what the detail extraction produced.
CarriesDetail(r) == "detail" \in DOMAIN r /\ r.detail = "ok"

\* C29: when a keyword is finished, every entry that is added to results
\* for a candidate whose detail extraction produced fields carries those
\* fields, merged into the candidate.
C29_ResultsCarryDetailFields ==
    [][ \A j \in Jobs :
          (pc[j] = "kw_finish" /\ pc'[j] # "kw_finish") =>
             \A q \in 1..Len(results') :
                ~InSeq(results'[q], results) =>
                   \A p \in 1..Len(detailed_items[j]) :
                      (/\ detailed_items[j][p].title = TitleOf(results'[q])
                       /\ detailed_items[j][p].detail = "ok")
                      => CarriesDetail(results'[q])
      ]_vars

---------------------------------------------------------------------------
(* G2BDetailProcessor.process_detail_page (g2b_detail.py)                  *)

\* The candidates: rows of the results list as the searcher stores them,
\* with 'row_index' (g2b_search.py 519, 767) and no 'index'.
DetailItems == { [title |-> "t", row_index |-> r] : r \in 0..MaxDetailRows }

NoItem == [title |-> "", row_index |-> 0 - 1]

\* Line 47: item.get('index', 0).
RowIndex(item) == IF "index" \in DOMAIN item THEN item.index ELSE 0

DetailInit ==
    /\ detail_pc = "idle"
    /\ detail_item = NoItem
    /\ opened_row = 0 - 1
    /\ detail_out = "none"
    /\ detail_ret = "none"
    /\ back_attempts = 0
    /\ detail_driver = "up"
    /\ detail_view = "results"
    /\ detail_calls = 0

DetailFrame ==
    UNCHANGED << crawl_vars, parser_vars, list_vars, bus_vars, snap_vars,
                 nav_vars,
                 popup_vars,
                 class_vars,
                 bidlist_vars >>

\* Lines 33-47: the processor is called for a candidate.
detail_call ==
    /\ detail_pc \in {"idle", "returned"}
    /\ detail_calls < MaxDetailCalls
    /\ detail_calls' = detail_calls + 1
    /\ \E item \in DetailItems : detail_item' = item
    /\ opened_row' = 0 - 1
    /\ detail_out' = "none"
    /\ detail_ret' = "none"
    /\ back_attempts' = 0
    /\ detail_pc' = "open"
    /\ DetailFrame
    /\ UNCHANGED << detail_driver, detail_view >>

\* Lines 50-68: the title cell of the row is looked up by its id and its
\* link is clicked; when that fails the call returns None.
detail_open ==
    /\ detail_pc = "open"
    /\ DetailFrame
    /\ UNCHANGED << detail_item, detail_out, back_attempts, detail_driver,
                    detail_calls >>
    /\ \/ /\ detail_driver = "up"
          /\ detail_view = "results"
          /\ opened_row' = RowIndex(detail_item)
          /\ detail_view' = "detail"
          /\ detail_pc' = "loaded"
          /\ UNCHANGED detail_ret
       \/ /\ detail_ret' = "none"
          /\ detail_pc' = "returned"
          /\ UNCHANGED << opened_row, detail_view >>

\* Lines 71 and 94-198: _extract_detail_data returns the fields it found,
\* or None when it found none or when anything in it raised.
detail_extract ==
    /\ detail_pc = "loaded"
    /\ detail_out' \in IF detail_driver = "up" THEN {"data", "nothing"}
                       ELSE {"nothing"}
    /\ detail_pc' = "extracted"
    /\ DetailFrame
    /\ UNCHANGED << detail_item, opened_row, detail_ret, back_attempts,
                    detail_driver, detail_view, detail_calls >>

\* A call that goes back to the list only when fields were extracted.
detail_back_ondata ==
    /\ detail_pc = "extracted"
    /\ DetailFrame
    /\ UNCHANGED << detail_item, opened_row, detail_out, detail_driver,
                    detail_calls >>
    /\ IF detail_out = "data" /\ detail_driver = "up"
       THEN /\ back_attempts' = back_attempts + 1
            /\ detail_view' = "results"
       ELSE UNCHANGED << back_attempts, detail_view >>
    /\ detail_ret' = detail_out
    /\ detail_pc' = "returned"

\* Lines 73-80: driver.back() is called whatever the extraction returned;
\* when it raises the handler of line 82 is entered.
detail_back ==
    /\ detail_pc = "extracted"
    /\ back_attempts' = back_attempts + 1
    /\ DetailFrame
    /\ UNCHANGED << detail_item, opened_row, detail_out, detail_driver,
                    detail_calls >>
    /\ \/ /\ detail_driver = "up"
          /\ detail_view' = "results"
          /\ detail_ret' = detail_out
          /\ detail_pc' = "returned"
       \/ /\ detail_pc' = "recover"
          /\ UNCHANGED << detail_ret, detail_view >>

\* Lines 82-92: the handler calls driver.back() once more, swallows what
\* that raises, and the call returns None.
detail_recover ==
    /\ detail_pc = "recover"
    /\ back_attempts' = back_attempts + 1
    /\ detail_view' = IF detail_driver = "up" THEN "results" ELSE detail_view
    /\ detail_ret' = "none"
    /\ detail_pc' = "returned"
    /\ DetailFrame
    /\ UNCHANGED << detail_item, opened_row, detail_out, detail_driver,
                    detail_calls >>

\* app.py 549-551: a stop request closes the crawler while the call sleeps.
detail_driver_quit ==
    /\ detail_pc \in {"loaded", "extracted"}
    /\ detail_driver = "up"
    /\ detail_driver' = "quit"
    /\ DetailFrame
    /\ UNCHANGED << detail_pc, detail_item, opened_row, detail_out,
                    detail_ret, back_attempts, detail_view, detail_calls >>

\* C30: a call of the processor that opened a detail view has called
\* driver.back() by the time it returns, whether the extraction gave
\* fields, gave nothing, or the call ended in its exception handler.
C30_BackAttemptedAfterOpen ==
    (detail_pc = "returned" /\ opened_row # 0 - 1) => back_attempts >= 1

\* A call opened a detail view, extracted nothing and has returned.
C30_Witness ==
    /\ detail_pc = "returned"
    /\ opened_row # 0 - 1
    /\ detail_out = "nothing"
    /\ back_attempts >= 1

\* C31: a call of the processor that extracted fields returns them, also
\* when going back to the results list failed.
C31_DataReturnedWhenBackFails ==
    (detail_pc = "returned" /\ detail_out = "data") => detail_ret = "data"

---------------------------------------------------------------------------
(* G2BNavigator._close_popups and navigate_to_main (g2b_navigation.py)     *)

\* The kinds of in-page interruption a pass looks for, in its order: the
\* notice window (lines 202-216), a close button found by one of the
\* selectors (218-257), a close button inside an iframe (259-299).
PopupKinds == << "notice", "button", "iframe" >>

NoPopups == [notice |-> 0, button |-> 0, iframe |-> 0]

PopupPages ==
    [notice : 0..1, button : 0..MaxPagePopups, iframe : 0..MaxFrames]

\* No sweep is modelled.
PopupIdle ==
    /\ popup_pc = "idle"
    /\ attempt = 0
    /\ closed_count = 0
    /\ pass_closed = 0
    /\ popups = NoPopups
    /\ hidden = 0
    /\ popup_windows = 0
    /\ dom_version = 0
    /\ seen_version = 0
    /\ failures = {}
    /\ popup_ret = "none"
    /\ main_ret = "none"

\* navigate_to_main is about to be called on a portal that shows any
\* interruptions.
PopupInit ==
    /\ popup_pc = "call"
    /\ attempt = 0
    /\ closed_count = 0
    /\ pass_closed = 0
    /\ popups \in PopupPages
    /\ hidden \in 0..MaxHiddenPopups
    /\ popup_windows \in 0..1
    /\ dom_version = 0
    /\ seen_version = 0
    /\ failures = {}
    /\ popup_ret = "none"
    /\ main_ret = "none"

PopupFrame ==
    UNCHANGED << crawl_vars, parser_vars, list_vars, bus_vars, snap_vars,
                 nav_vars, detail_vars,
                 class_vars,
                 bidlist_vars >>

\* Lines 35-45: the main page is fetched; when that raises, False is
\* returned at once.
navigator_main_get ==
    /\ popup_pc = "call"
    /\ PopupFrame
    /\ UNCHANGED << attempt, closed_count, pass_closed, popups, hidden,
                    popup_windows, dom_version, seen_version, failures,
                    popup_ret >>
    /\ \/ /\ popup_pc' = "windows"
          /\ UNCHANGED main_ret
       \/ /\ popup_pc' = "ended"
          /\ main_ret' = "false"

\* The sweep ends as its window stage ends when raising is TRUE: a failure
\* of it leaves the sweep as an exception.
PopupWindows(raising) ==
    /\ popup_pc = "windows"
    /\ PopupFrame
    /\ UNCHANGED << attempt, closed_count, pass_closed, popups, hidden,
                    dom_version, seen_version, main_ret >>
    /\ \/ /\ popup_windows' = 0
          /\ popup_pc' = "pass"
          /\ UNCHANGED << failures, popup_ret >>
       \/ /\ failures' = failures \cup {"window"}
          /\ popup_pc' = "done"
          /\ popup_ret' = IF raising THEN "raised" ELSE "returned"
          /\ UNCHANGED popup_windows

\* _close_popups without its outer handler.
popup_switch_windows_unhandled == PopupWindows(TRUE)

\* Lines 169-193 and 339-340: every window but the main one is closed; a
\* failure of the switching is caught by the outer handler, which logs it
\* and lets the sweep return.
popup_switch_windows == PopupWindows(FALSE)

\* One interruption of kind k is closed: the document changes, and the
\* close may reveal one more.
ClosePopup(k) ==
    /\ popups[k] > 0
    /\ dom_version' = dom_version + 1
    /\ closed_count' = closed_count + 1
    /\ \/ /\ popups' = [popups EXCEPT ![k] = @ - 1]
          /\ UNCHANGED hidden
       \/ /\ hidden > 0
          /\ hidden' = hidden - 1
          /\ popups' = IF k = "button" THEN popups
                       ELSE [popups EXCEPT ![k] = @ - 1, !.button = @ + 1]

\* The kinds before kind number i in the order of a pass.
KindsBefore(i) == { PopupKinds[n] : n \in 1..(i - 1) }

\* Lines 196-312: one pass of the loop.  The document is queried anew; the
\* first kind whose close control is found and can be clicked is closed
\* and the pass ends there (continue); a click that raises is skipped; when
\* nothing was closed, escape is sent and the loop is left.  A failure
\* outside the inner handlers (line 261) ends the sweep through the outer
\* handler.  In the iframe loop (263-299) switch_to.default_content() at
\* line 291 may raise after the click: the handler at 296-299 calls it
\* again and, when that succeeds, the loop goes on to the next iframe
\* without looking at iframe_processed; when it raises too, the outer
\* handler ends the sweep.
popup_pass ==
    /\ popup_pc = "pass"
    /\ attempt < MaxAttempts
    /\ attempt' = attempt + 1
    /\ seen_version' = dom_version
    /\ PopupFrame
    /\ UNCHANGED << popup_windows, main_ret >>
    /\ \/ \E i \in 1..Len(PopupKinds) :
             /\ ClosePopup(PopupKinds[i])
             /\ pass_closed' = 1
             /\ failures' =
                   IF \E k \in KindsBefore(i) : popups[k] > 0
                   THEN failures \cup {"click"} ELSE failures
             /\ popup_pc' = IF attempt' = MaxAttempts THEN "focus" ELSE "pass"
             /\ UNCHANGED popup_ret
       \/ /\ popups.iframe > 0
          /\ failures' = failures \cup {"frame"}
                          \cup (IF popups.notice + popups.button > 0
                                THEN {"click"} ELSE {})
          /\ UNCHANGED hidden
          /\ \/ /\ popups.iframe > 1
                /\ popups' = [popups EXCEPT !.iframe = @ - 2]
                /\ pass_closed' = 2
                /\ closed_count' = closed_count + 2
                /\ dom_version' = dom_version + 2
                /\ popup_pc' = IF attempt' = MaxAttempts THEN "focus"
                               ELSE "pass"
                /\ UNCHANGED popup_ret
             \/ /\ popups' = [popups EXCEPT !.iframe = @ - 1]
                /\ pass_closed' = 1
                /\ closed_count' = closed_count + 1
                /\ dom_version' = dom_version + 1
                /\ popup_pc' = "done"
                /\ popup_ret' = "returned"
       \/ /\ pass_closed' = 0
          /\ \E esc \in {{}, {"escape"}} :
                failures' =
                   failures \cup esc \cup
                   (IF popups # NoPopups THEN {"click"} ELSE {})
          /\ popup_pc' = "focus"
          /\ UNCHANGED << popups, hidden, dom_version, closed_count,
                          popup_ret >>
       \/ /\ pass_closed' = 0
          /\ failures' = failures \cup {"query"}
          /\ popup_pc' = "done"
          /\ popup_ret' = "returned"
          /\ UNCHANGED << popups, hidden, dom_version, closed_count >>

\* Lines 314-337: the count is logged and the main content is clicked; a
\* failure of both clicks is passed over.
popup_focus ==
    /\ popup_pc = "focus"
    /\ \E f \in {{}, {"focus"}} : failures' = failures \cup f
    /\ popup_pc' = "done"
    /\ popup_ret' = "returned"
    /\ PopupFrame
    /\ UNCHANGED << attempt, closed_count, pass_closed, popups, hidden,
                    popup_windows, dom_version, seen_version, main_ret >>

\* Lines 45-51: after the sweep navigate_to_main returns True; an
\* exception out of the sweep would make it return False.
navigator_main_end ==
    /\ popup_pc = "done"
    /\ popup_pc' = "ended"
    /\ main_ret' = IF popup_ret = "returned" THEN "true" ELSE "false"
    /\ PopupFrame
    /\ UNCHANGED << attempt, closed_count, pass_closed, popups, hidden,
                    popup_windows, dom_version, seen_version, failures,
                    popup_ret >>

\* C32: a sweep makes at most 5 passes, each pass queries the document as
\* it is when the pass begins and closes at most one interruption, the
\* first pass that closes nothing is the last, and the sweep ends.
C32_SweepBoundedOnePerPass ==
    /\ [](attempt <= 5 /\ pass_closed <= 1)
    /\ [][attempt' = attempt + 1
            => /\ seen_version' = dom_version
               /\ closed_count' <= closed_count + 1
               /\ pass_closed' = 0 => popup_pc' # "pass"
         ]_vars
    /\ (popup_pc = "call") ~> (popup_pc = "ended")

\* C33: whatever fails in a sweep, the sweep returns to its caller and does
\* not raise, and navigate_to_main goes on to return True.
C33_PopupFailuresSwallowed ==
    /\ popup_ret # "raised"
    /\ popup_pc = "done" => popup_ret = "returned"
    /\ (popup_pc = "ended" /\ popup_ret # "none") => main_ret = "true"

\* A sweep in which a click, the escape key and the focus failed has
\* returned, and so has one in which the window switching failed.
C33_Witness ==
    /\ popup_pc = "ended"
    /\ main_ret = "true"
    /\ {"click", "escape", "focus"} \subseteq failures

---------------------------------------------------------------------------
(* The status of a list row (g2b_search.py) and of its BidItem             *)

\* The value strptime gives when the text does not match the format
\* (ValueError).
NoDate == 0 - 1

\* The texts an end-date cell holds: empty, a date written in one of the
\* notations "-", "/", "." and year-month-day characters, and a text that
\* is no date.  A date is its day number.
DateTexts ==
    {[form |-> "empty", day |-> 0], [form |-> "other", day |-> 0]}
    \cup [form : {"%Y-%m-%d", "%Y/%m/%d", "%Y.%m.%d", "%Y_%m_%d_"},
          day : 0..MaxDay]

\* datetime.strptime(text, format).
Strptime(text, format) ==
    IF text.form = format THEN text.day ELSE NoDate

\* Lines 496-497: date_formats, in order (the last one writes the year,
\* month and day characters after the numbers).
date_formats == << "%Y-%m-%d", "%Y/%m/%d", "%Y.%m.%d", "%Y_%m_%d_" >>

\* The first format of date_formats that parses the text, 0 when none does.
FirstFormat(text) ==
    IF \E n \in 1..Len(date_formats) : Strptime(text, date_formats[n]) # NoDate
    THEN CHOOSE n \in 1..Len(date_formats) :
            /\ Strptime(text, date_formats[n]) # NoDate
            /\ \A k \in 1..(n - 1) : Strptime(text, date_formats[k]) = NoDate
    ELSE 0

\* Lines 491-509 of _extract_items_from_table: the status of a row.
StatusFromTable(text, today) ==
    IF text.form = "empty" THEN "unknown"
    ELSE IF FirstFormat(text) = 0 THEN "unknown"
    ELSE IF Strptime(text, date_formats[FirstFormat(text)]) < today
         THEN "closed"
    ELSE "open"

\* Lines 616-627 of _extract_items_from_cells: only "%Y-%m-%d" is tried.
StatusFromCells(text, today) ==
    IF text.form = "empty" THEN "unknown"
    ELSE IF Strptime(text, "%Y-%m-%d") = NoDate THEN "unknown"
    ELSE IF Strptime(text, "%Y-%m-%d") < today THEN "closed"
    ELSE "open"

\* Lines 457-469 of _convert_to_bid_item: the BidStatus of a status text.
ConvertStatus(status_str) ==
    IF status_str = "open" THEN "OPEN"
    ELSE IF status_str = "closed" THEN "CLOSED"
    ELSE "UNKNOWN"

\* No row is modelled.
ClassIdle ==
    /\ class_pc = "idle"
    /\ date_end = [form |-> "empty", day |-> 0]
    /\ current_date = 0
    /\ strategy = "none"
    /\ item_status = "none"
    /\ bid_status = "none"

\* A row with any end-date text is about to be read on any day.
ClassInit ==
    /\ class_pc = "row"
    /\ date_end \in DateTexts
    /\ current_date \in 0..MaxDay
    /\ strategy = "none"
    /\ item_status = "none"
    /\ bid_status = "none"

ClassFrame ==
    UNCHANGED << crawl_vars, parser_vars, list_vars, bus_vars, snap_vars,
                 nav_vars, detail_vars, popup_vars,
                 bidlist_vars >>

\* The table strategy reads the row.
extract_items_from_table ==
    /\ class_pc = "row"
    /\ class_pc' = "item"
    /\ strategy' = "table"
    /\ item_status' = StatusFromTable(date_end, current_date)
    /\ ClassFrame
    /\ UNCHANGED << date_end, current_date, bid_status >>

\* The cell strategy reads the row (g2b_search.py 370-372: it is used when
\* the table strategy found no item).
extract_items_from_cells ==
    /\ class_pc = "row"
    /\ class_pc' = "item"
    /\ strategy' = "cells"
    /\ item_status' = StatusFromCells(date_end, current_date)
    /\ ClassFrame
    /\ UNCHANGED << date_end, current_date, bid_status >>

\* The item becomes a BidItem.
convert_to_bid_item ==
    /\ class_pc = "item"
    /\ class_pc' = "model"
    /\ bid_status' = ConvertStatus(item_status)
    /\ ClassFrame
    /\ UNCHANGED << date_end, current_date, strategy, item_status >>

\* The end-date text is a date in one of the known formats.
KnownDate(text) ==
    \E n \in 1..Len(date_formats) : Strptime(text, date_formats[n]) # NoDate

\* The status the end-date text calls for.
ExpectedStatus(text, today) ==
    IF ~KnownDate(text) THEN "UNKNOWN"
    ELSE IF text.day < today THEN "CLOSED"
    ELSE "OPEN"

\* C34: the BidItem of a row is Closed when its end date is a date in a
\* known format before the current date, Open when it is such a date and
\* not before, Unknown otherwise, whichever strategy read the row.
C34_StatusFromEndDate ==
    class_pc = "model" => bid_status = ExpectedStatus(date_end, current_date)

---------------------------------------------------------------------------
(* The fields of a reply of the text service (g2b_parser.py 316-369)       *)

\* Line 343: the line begins a new item.
Ordinal(line) == line.kind \in {"item", "head"}

RECURSIVE FollowingLines(_, _)
\* The texts of the lines from position j on that come before the next
\* line beginning a new item, blank lines left out.
FollowingLines(lines, j) ==
    IF j > Len(lines) \/ Ordinal(lines[j]) THEN << >>
    ELSE IF lines[j].kind = "blank" THEN FollowingLines(lines, j + 1)
    ELSE << lines[j].text >> \o FollowingLines(lines, j + 1)

\* The content of the field that line i begins: what follows its colon,
\* then the lines after it up to the next field.
FieldContent(lines, i) ==
    (IF lines[i].kind = "item" THEN << lines[i].text >> ELSE << >>)
    \o FollowingLines(lines, i + 1)

\* C35: every field of the parsed reply holds, in order, the content of
\* the numbered line that began it and of the lines after that line up to
\* the next numbered line, and nothing of any other line.
C35_LinesBelongToTheirField ==
    "prompt_result_parsed" \in DOMAIN detail_data
    => \A n \in 1..Len(detail_data.prompt_result_parsed) :
          \E i \in 1..Len(response) :
             /\ Ordinal(response[i])
             /\ response[i].key = detail_data.prompt_result_parsed[n].key
             /\ detail_data.prompt_result_parsed[n].value
                   = FieldContent(response, i)

\* C36: the cleanup that ends the task of a job closes no browser session
\* of another job, and does not clear the running flag once a later job
\* has been accepted.
C36_CleanupOnlyOwnJob ==
    [][\A j \in Jobs :
          (pc[j] = "finally" /\ pc'[j] = "done")
          => /\ \A k \in Jobs \ {j} : driver_open'[k] = driver_open[k]
             /\ jobs > j => is_running' = is_running
      ]_vars

\* C37: every entry added to results when a keyword is finished is that of
\* a candidate whose detail extraction was attempted; the candidates left
\* unprocessed when a stop ended the item loop are not added.
C37_OnlyAttemptedCandidatesInResults ==
    [][\A j \in Jobs :
          (pc[j] = "kw_finish" /\ pc'[j] = "kw_check")
          => \A n \in 1..Len(results') :
                ~InSeq(results'[n], results)
                => \E p \in 1..(item_idx[j] - 1) :
                      TitleOf(results'[n]) = keyword_results[j][p].title
      ]_vars

\* C38: when the endpoint of a subscriber that a broadcast has removed
\* already runs its removal at close, the removal does not fail and the
\* subscriber list stays as it is.
C38_CloseAfterPruneIsSafe ==
    [][\A c \in Clients :
          (ws_state[c] = "closed" /\ ws_state'[c] # "closed" /\ c \in removed)
          => /\ ws_state'[c] = "gone"
             /\ active_connections' = active_connections
      ]_vars

\* The task of job j is handling a keyword whose search reported failure:
\* the portal lists notices for the keyword, so that a search that
\* succeeded would have extracted them, and the task is in the branch of
\* the keywords without results.
SearchFailed(j) ==
    /\ pc[j] = "kw_empty"
    /\ Listing(keywords[j][idx[j]]) # << >>

\* C39: a keyword whose search reported failure without raising is handled
\* as a keyword with no results: it is added to the processed keywords,
\* the status is broadcast and no error event, results stay as they were,
\* and the loop goes on to the next keyword.
C39_SearchFailureAsNoResults ==
    [][\A j \in Jobs :
          /\ (pc[j] = "kw_log" /\ SearchFailed(j)')
             => /\ results' = results
                /\ keyword_results'[j] = << >>
                /\ ~InSeq("error", sent'[j])
          /\ (SearchFailed(j) /\ pc'[j] # "kw_empty")
             => /\ processed_keywords' =
                      MarkProcessed(processed_keywords, keywords[j][idx[j]])
                /\ InSeq("status", sent'[j])
                /\ ~InSeq("error", sent'[j])
                /\ results' = results
                /\ pc'[j] = "kw_check"
                /\ idx'[j] = idx[j] + 1
      ]_vars

\* The search of keyword "b", for which the portal lists a notice, failed:
\* the keyword is processed, the status was broadcast, results is empty
\* and the loop is at the next keyword.
C39_Witness ==
    /\ pc[1] = "kw_check"
    /\ keywords[1] = << "b", "c", "d" >>
    /\ idx[1] = 2
    /\ processed_keywords = << "b" >>
    /\ sent[1] = << "status" >>
    /\ results = << >>
    /\ is_running

---------------------------------------------------------------------------
(* G2BNavigator.navigate_to_bid_list (g2b_navigation.py 53-128)            *)

\* The portals: whether the menu entries can be clicked, and the search
\* button of the list page: the one of the live portal ("real"), the one
\* of the test page ("test"), or none.
Sites == [menu : BOOLEAN, marker : {"real", "test", "none"}]

\* No call is modelled.
BidListIdle ==
    /\ site = [menu |-> FALSE, marker |-> "none"]
    /\ bidlist_pc = "idle"
    /\ list_attempt = 0
    /\ attempt_log = << >>
    /\ bidlist_ret = "none"

\* A call is about to begin on any portal.
BidListInit ==
    /\ site \in Sites
    /\ bidlist_pc = "call"
    /\ list_attempt = 0
    /\ attempt_log = << >>
    /\ bidlist_ret = "none"

BidListFrame ==
    UNCHANGED << crawl_vars, parser_vars, list_vars, bus_vars, snap_vars,
                 nav_vars, detail_vars, popup_vars, class_vars >>

\* Lines 58-63: the main page first; when that fails, False is returned.
bidlist_main ==
    /\ bidlist_pc = "call"
    /\ BidListFrame
    /\ UNCHANGED << site, attempt_log >>
    /\ \/ /\ bidlist_pc' = "click"
          /\ list_attempt' = 1
          /\ UNCHANGED bidlist_ret
       \/ /\ bidlist_pc' = "done"
          /\ bidlist_ret' = "false"
          /\ UNCHANGED list_attempt

\* The attempt is over without a return: the loop goes on, or, after the
\* third attempt, the exception raised at line 89, 116 or 123 is caught at
\* line 125 and False is returned.
NextAttempt(outcome) ==
    /\ attempt_log' = Append(attempt_log, outcome)
    /\ IF list_attempt = MaxListAttempts
       THEN /\ bidlist_pc' = "done"
            /\ bidlist_ret' = "false"
            /\ UNCHANGED list_attempt
       ELSE /\ bidlist_pc' = "click"
            /\ list_attempt' = list_attempt + 1
            /\ UNCHANGED bidlist_ret

\* Lines 64-91: the two menu entries are clicked; a click that fails, as
\* it does where the menu is missing, ends the attempt.
bidlist_click ==
    /\ bidlist_pc = "click"
    /\ BidListFrame
    /\ UNCHANGED site
    /\ \/ /\ site.menu
          /\ bidlist_pc' = "confirm"
          /\ UNCHANGED << list_attempt, attempt_log, bidlist_ret >>
       \/ NextAttempt("click failed")

\* The attempt returns True when unchecked is TRUE, also without the search
\* button.
Confirm(unchecked) ==
    /\ bidlist_pc = "confirm"
    /\ BidListFrame
    /\ UNCHANGED site
    /\ \/ /\ site.marker # "none"
          /\ attempt_log' = Append(attempt_log, site.marker)
          /\ bidlist_pc' = "done"
          /\ bidlist_ret' = "true"
          /\ UNCHANGED list_attempt
       \/ IF unchecked
          THEN /\ attempt_log' = Append(attempt_log, "unconfirmed")
               /\ bidlist_pc' = "done"
               /\ bidlist_ret' = "true"
               /\ UNCHANGED list_attempt
          ELSE NextAttempt("unconfirmed")

\* navigate_to_bid_list returning True after the clicks.
bidlist_confirm_unchecked == Confirm(TRUE)

\* Lines 93-112: the search button is waited for, by the identifier of the
\* live portal and then by that of the test page; True is returned when
\* either is present, and the attempt ends when both waits time out.
bidlist_confirm == Confirm(FALSE)

\* C40: navigate_to_bid_list makes at most 3 attempts, returns True only
\* from an attempt in which the search button was found, and returns False,
\* raising nothing, after 3 attempts that did not find it.
C40_ThreeAttemptsThenFailure ==
    /\ list_attempt <= 3
    /\ Len(attempt_log) <= 3
    /\ bidlist_ret \in {"none", "true", "false"}
    /\ bidlist_ret = "true"
       => /\ attempt_log # << >>
          /\ attempt_log[Len(attempt_log)] \in {"real", "test"}
          /\ attempt_log[Len(attempt_log)] = site.marker
          /\ Len(attempt_log) = list_attempt
    /\ ( /\ Len(attempt_log) = 3
         /\ attempt_log[3] \notin {"real", "test"} )
       => bidlist_pc = "done" /\ bidlist_ret = "false"

\* Three attempts, the last of which clicked through the menu and did not
\* find the search button, ended in False.
C40_Witness ==
    /\ bidlist_pc = "done"
    /\ bidlist_ret = "false"
    /\ list_attempt = 3
    /\ Len(attempt_log) = 3
    /\ attempt_log[3] = "unconfirmed"

---------------------------------------------------------------------------
\* C24: the step in which a start request is accepted leaves the job
\* running, with no results, no processed keywords, the number of the
\* request's keywords as the total, the start time set and the end time
\* cleared; the task of the new job has not begun when the handler returns,
\* so it has processed no keyword.
C24_AcceptedStartResetsState ==
    [][(jobs' = jobs + 1)
          => /\ is_running'
             /\ results' = << >>
             /\ processed_keywords' = << >>
             /\ total_keywords' = Len(keywords'[jobs'])
             /\ total_keywords' > 0
             /\ start_time' = Now
             /\ end_time' = None
             /\ pc'[jobs'] = "pending"
             /\ idx'[jobs'] = 0
      ]_vars

\* A second job has just been accepted after a first one that has ended
\* (and so had set the end time), and its task has not begun.
C24_Witness ==
    /\ jobs = 2
    /\ pc[2] = "pending"
    /\ pc[1] = "done"
    /\ is_running
    /\ results = << >>
    /\ total_keywords = 1
    /\ end_time = None

---------------------------------------------------------------------------
\* The requests reqs arrive at any time, at most n starts are accepted, and
\* the tasks run.
NextFor(reqs, n) ==
    \/ \E req \in reqs : start_crawling(req) /\ jobs' <= n
    \/ stop_crawling_check
    \/ stop_crawling_apply
    \/ \E j \in Jobs : run_crawling(j)

\* No job has been started, no client has connected, and no call of the
\* parser or of the searcher is modelled on its own.
IdleInit == Init /\ ParserIdle /\ ListIdle /\ BusInit /\ SnapInit
                /\ NavInit /\ DetailInit /\ PopupIdle /\ ClassIdle
                /\ BidListIdle

\* The same, with a call of the parser about to begin.
ParserCallInit == Init /\ ParserInit /\ ListIdle /\ BusInit /\ SnapInit
                /\ NavInit /\ DetailInit /\ PopupIdle /\ ClassIdle
                /\ BidListIdle

\* The same, with a call of the searcher about to begin.
ListCallInit == Init /\ ParserIdle /\ ListInit /\ BusInit /\ SnapInit
                /\ NavInit /\ DetailInit /\ PopupIdle /\ ClassIdle
                /\ BidListIdle

Next == NextFor(Requests, MaxJobs)

RaceNext == NextFor(RaceRequests, MaxRaceJobs)

OverlapNext == NextFor(OverlapRequests, MaxOverlapJobs)

LiveNext == NextFor(RaceRequests, MaxLiveJobs)

\* One job at a time is started, with every request body.
Spec == IdleInit /\ [][Next]_vars

\* Starts and stops race with the tasks of earlier jobs.
RaceSpec == IdleInit /\ [][RaceNext]_vars

\* The same, and the jobs differ in their keywords.
OverlapSpec == IdleInit /\ [][OverlapNext]_vars

\* The event loop runs every task that is ready: a task that can take a
\* step eventually takes one.
LiveSpec == IdleInit /\ [][LiveNext]_vars
                 /\ \A j \in 1..MaxLiveJobs : WF_vars(run_crawling(j))

\* One call of parse_detail_page, for every page and every reply.
ParserNext == parse_detail_page

ParserSpec == ParserCallInit /\ [][ParserNext]_vars

\* One call of the searcher's extract_search_results, for every page.
ListNext == extract_search_results

ListSpec == ListCallInit /\ [][ListNext]_vars

\* Clients connect, go away and are disconnected while events are broadcast.
BusNext ==
    \/ \E c \in Clients : ws_connect(c)
    \/ \E c \in Clients : ws_stall(c)
    \/ \E c \in Clients : ws_close(c)
    \/ \E c \in Clients : ws_disconnect(c)
    \/ broadcast

BusSpec == IdleInit /\ [][BusNext]_vars

\* Status is read and broadcast while the job appends.
SnapNext ==
    \/ snap_reset
    \/ snap_append
    \/ status_begin
    \/ \E c \in Clients : status_send(c)
    \/ status_end
    \/ get_status

SnapSpec == IdleInit /\ [][SnapNext]_vars

\* The crawler's calls in any order.
NavNext ==
    \/ navigate_to_main
    \/ navigate_to_bid_list
    \/ search_keyword
    \/ process_detail_page
    \/ close

NavSpec == IdleInit /\ [][NavNext]_vars

\* Calls of the detail processor, one after the other.
DetailNext ==
    \/ detail_call
    \/ detail_open
    \/ detail_extract
    \/ detail_back
    \/ detail_recover
    \/ detail_driver_quit

DetailSpec == IdleInit /\ [][DetailNext]_vars

\* The same as IdleInit, with a call of navigate_to_main about to begin.
PopupCallInit == Init /\ ParserIdle /\ ListIdle /\ BusInit /\ SnapInit
                 /\ NavInit /\ DetailInit /\ PopupInit /\ ClassIdle
                /\ BidListIdle

\* One call of navigate_to_main with its sweep, on every page.
PopupNext ==
    \/ navigator_main_get
    \/ popup_switch_windows
    \/ popup_pass
    \/ popup_focus
    \/ navigator_main_end

\* The call is the only task: the event loop resumes it after each sleep.
PopupSpec == PopupCallInit /\ [][PopupNext]_vars /\ WF_vars(PopupNext)

\* The same as IdleInit, with a list row about to be read.
ClassCallInit == Init /\ ParserIdle /\ ListIdle /\ BusInit /\ SnapInit
                 /\ NavInit /\ DetailInit /\ PopupIdle /\ ClassInit
                /\ BidListIdle

\* One row is read by either strategy and converted.
ClassNext ==
    \/ extract_items_from_table
    \/ extract_items_from_cells
    \/ convert_to_bid_item

ClassSpec == ClassCallInit /\ [][ClassNext]_vars

\* The same as IdleInit, with a call of navigate_to_bid_list about to
\* begin.
BidListCallInit == Init /\ ParserIdle /\ ListIdle /\ BusInit /\ SnapInit
                   /\ NavInit /\ DetailInit /\ PopupIdle /\ ClassIdle
                   /\ BidListInit

\* One call of navigate_to_bid_list on every portal.
BidListNext ==
    \/ bidlist_main
    \/ bidlist_click
    \/ bidlist_confirm

BidListSpec == BidListCallInit /\ [][BidListNext]_vars

====
